---- MODULE Spec2Model ----
(***************************************************************************)
(* serde-envfile: the encoder (src/src/ser.rs) and the decoder glue        *)
(* (src/src/de.rs) as a state machine of one call of an entry point.       *)
(*                                                                         *)
(* Encode: a value is a tree.  The serialization framework walks it depth  *)
(* first and calls one Serializer method per node, begin and end of every  *)
(* container included.  The walk of a value is the sequence of those calls *)
(* (Walk); the machine executes one call per step on the Serializer's      *)
(* fields.  Text is a sequence of one-character strings.                   *)
(*                                                                         *)
(* Decode: the line parser and the coercion engine are the external crates *)
(* dotenvy and envy.  What the parser yields per line (a pair or an error) *)
(* is an input, and so is the engine's answer; the machine is the loop     *)
(* that collects the pairs and the call that hands them to the engine.     *)
(***************************************************************************)
EXTENDS Integers, Sequences, FiniteSets, TLC

(***************************************************************************)
(* Bounds of the input family.                                             *)
(***************************************************************************)
MaxFields == 2
MaxSeqLen == 2
MaxDepth == 2
MaxLines == 3

(***************************************************************************)
(* Text.  A text is a sequence of characters.  A character of the ASCII    *)
(* range is the one-character string (tab, line feed, form feed, carriage   *)
(* return among them); any other character is named by the list of its     *)
(* UTF-8 bytes, written as ToString writes a sequence: the Euro sign is    *)
(* "<<226, 130, 172>>".                                                     *)
(***************************************************************************)
Digits == <<"0","1","2","3","4","5","6","7","8","9">>

\* the characters of the bytes 32 .. 126 (byte 96 has no string to write it with)
Ascii ==
  <<" ","!","\"","#","$","%","&","'","(",")","*","+",",","-",".","/",
    "0","1","2","3","4","5","6","7","8","9",":",";","<","=",">","?",
    "@","A","B","C","D","E","F","G","H","I","J","K","L","M","N","O",
    "P","Q","R","S","T","U","V","W","X","Y","Z","[","\\","]","^","_",
    "?","a","b","c","d","e","f","g","h","i","j","k","l","m","n","o",
    "p","q","r","s","t","u","v","w","x","y","z","{","|","}","~">>

\* the character that the bytes bs encode
CharOf(bs) ==
  IF Len(bs) = 1 /\ bs[1] >= 32 /\ bs[1] <= 126 /\ bs[1] # 96 THEN Ascii[bs[1] - 31]
  ELSE IF bs = <<9>> THEN "\t"
  ELSE IF bs = <<10>> THEN "\n"
  ELSE IF bs = <<12>> THEN "\f"
  ELSE IF bs = <<13>> THEN "\r"
  ELSE ToString(bs)

\* the bytes that the name c of a character lists from position i on, n the
\* number read so far
RECURSIVE Listed(_, _, _)
Listed(c, i, n) ==
  LET Read(ch) == IF ch = ">" THEN <<n>>
                  ELSE IF ch = "," THEN <<n>> \o Listed(c, i + 2, 0)
                  ELSE Listed(c, i + 1, n * 10 + (CHOOSE d \in 0..9 : Digits[d + 1] = ch))
  IN Read(SubSeq(c, i, i))

\* char::encode_utf8: the bytes of the character c
encode_utf8(c) ==
  IF Len(c) > 1 THEN Listed(c, 3, 0)
  ELSE IF c = "\t" THEN <<9>>
  ELSE IF c = "\n" THEN <<10>>
  ELSE IF c = "\f" THEN <<12>>
  ELSE IF c = "\r" THEN <<13>>
  ELSE <<31 + CHOOSE i \in DOMAIN Ascii : Ascii[i] = c /\ i # 65>>

\* str::as_bytes: a text in memory
RECURSIVE as_bytes(_)
as_bytes(s) == IF s = <<>> THEN <<>> ELSE encode_utf8(Head(s)) \o as_bytes(Tail(s))

\* the bytes that encode the code point n
Encoded_utf8(n) ==
  IF n < 128 THEN <<n>>
  ELSE IF n < 2048 THEN <<192 + (n \div 64), 128 + (n % 64)>>
  ELSE IF n < 65536 THEN <<224 + (n \div 4096), 128 + ((n \div 64) % 64), 128 + (n % 64)>>
  ELSE <<240 + (n \div 262144), 128 + ((n \div 4096) % 64), 128 + ((n \div 64) % 64),
         128 + (n % 64)>>

\* the upper-case mapping of Unicode 17.0 outside ASCII, for the code points
\* that become one code point: <<first, last, step, d>> says that n becomes
\* n + d for n = first, first + step, .. last
UPPERCASE_TABLE ==
  <<<<181, 181, 1, 743>>, <<224, 246, 1, -32>>, <<248, 254, 1, -32>>, <<255, 255, 1, 121>>,
    <<257, 303, 2, -1>>, <<305, 305, 1, -232>>, <<307, 311, 2, -1>>, <<314, 328, 2, -1>>,
    <<331, 375, 2, -1>>, <<378, 382, 2, -1>>, <<383, 383, 1, -300>>, <<384, 384, 1, 195>>,
    <<387, 389, 2, -1>>, <<392, 392, 1, -1>>, <<396, 396, 1, -1>>, <<402, 402, 1, -1>>,
    <<405, 405, 1, 97>>, <<409, 409, 1, -1>>, <<410, 410, 1, 163>>, <<411, 411, 1, 42561>>,
    <<414, 414, 1, 130>>, <<417, 421, 2, -1>>, <<424, 424, 1, -1>>, <<429, 429, 1, -1>>,
    <<432, 432, 1, -1>>, <<436, 438, 2, -1>>, <<441, 441, 1, -1>>, <<445, 445, 1, -1>>,
    <<447, 447, 1, 56>>, <<453, 453, 1, -1>>, <<454, 454, 1, -2>>, <<456, 456, 1, -1>>,
    <<457, 457, 1, -2>>, <<459, 459, 1, -1>>, <<460, 460, 1, -2>>, <<462, 476, 2, -1>>,
    <<477, 477, 1, -79>>, <<479, 495, 2, -1>>, <<498, 498, 1, -1>>, <<499, 499, 1, -2>>,
    <<501, 501, 1, -1>>, <<505, 543, 2, -1>>, <<547, 563, 2, -1>>, <<572, 572, 1, -1>>,
    <<575, 576, 1, 10815>>, <<578, 578, 1, -1>>, <<583, 591, 2, -1>>, <<592, 592, 1, 10783>>,
    <<593, 593, 1, 10780>>, <<594, 594, 1, 10782>>, <<595, 595, 1, -210>>, <<596, 596, 1, -206>>,
    <<598, 599, 1, -205>>, <<601, 601, 1, -202>>, <<603, 603, 1, -203>>, <<604, 604, 1, 42319>>,
    <<608, 608, 1, -205>>, <<609, 609, 1, 42315>>, <<611, 611, 1, -207>>, <<612, 612, 1, 42343>>,
    <<613, 613, 1, 42280>>, <<614, 614, 1, 42308>>, <<616, 616, 1, -209>>, <<617, 617, 1, -211>>,
    <<618, 618, 1, 42308>>, <<619, 619, 1, 10743>>, <<620, 620, 1, 42305>>, <<623, 623, 1, -211>>,
    <<625, 625, 1, 10749>>, <<626, 626, 1, -213>>, <<629, 629, 1, -214>>, <<637, 637, 1, 10727>>,
    <<640, 640, 1, -218>>, <<642, 642, 1, 42307>>, <<643, 643, 1, -218>>, <<647, 647, 1, 42282>>,
    <<648, 648, 1, -218>>, <<649, 649, 1, -69>>, <<650, 651, 1, -217>>, <<652, 652, 1, -71>>,
    <<658, 658, 1, -219>>, <<669, 669, 1, 42261>>, <<670, 670, 1, 42258>>, <<837, 837, 1, 84>>,
    <<881, 883, 2, -1>>, <<887, 887, 1, -1>>, <<891, 893, 1, 130>>, <<940, 940, 1, -38>>,
    <<941, 943, 1, -37>>, <<945, 961, 1, -32>>, <<962, 962, 1, -31>>, <<963, 971, 1, -32>>,
    <<972, 972, 1, -64>>, <<973, 974, 1, -63>>, <<976, 976, 1, -62>>, <<977, 977, 1, -57>>,
    <<981, 981, 1, -47>>, <<982, 982, 1, -54>>, <<983, 983, 1, -8>>, <<985, 1007, 2, -1>>,
    <<1008, 1008, 1, -86>>, <<1009, 1009, 1, -80>>, <<1010, 1010, 1, 7>>, <<1011, 1011, 1, -116>>,
    <<1013, 1013, 1, -96>>, <<1016, 1016, 1, -1>>, <<1019, 1019, 1, -1>>, <<1072, 1103, 1, -32>>,
    <<1104, 1119, 1, -80>>, <<1121, 1153, 2, -1>>, <<1163, 1215, 2, -1>>, <<1218, 1230, 2, -1>>,
    <<1231, 1231, 1, -15>>, <<1233, 1327, 2, -1>>, <<1377, 1414, 1, -48>>,
    <<4304, 4346, 1, 3008>>, <<4349, 4351, 1, 3008>>, <<5112, 5117, 1, -8>>,
    <<7296, 7296, 1, -6254>>, <<7297, 7297, 1, -6253>>, <<7298, 7298, 1, -6244>>,
    <<7299, 7300, 1, -6242>>, <<7301, 7301, 1, -6243>>, <<7302, 7302, 1, -6236>>,
    <<7303, 7303, 1, -6181>>, <<7304, 7304, 1, 35266>>, <<7306, 7306, 1, -1>>,
    <<7545, 7545, 1, 35332>>, <<7549, 7549, 1, 3814>>, <<7566, 7566, 1, 35384>>,
    <<7681, 7829, 2, -1>>, <<7835, 7835, 1, -59>>, <<7841, 7935, 2, -1>>, <<7936, 7943, 1, 8>>,
    <<7952, 7957, 1, 8>>, <<7968, 7975, 1, 8>>, <<7984, 7991, 1, 8>>, <<8000, 8005, 1, 8>>,
    <<8017, 8023, 2, 8>>, <<8032, 8039, 1, 8>>, <<8048, 8049, 1, 74>>, <<8050, 8053, 1, 86>>,
    <<8054, 8055, 1, 100>>, <<8056, 8057, 1, 128>>, <<8058, 8059, 1, 112>>,
    <<8060, 8061, 1, 126>>, <<8112, 8113, 1, 8>>, <<8126, 8126, 1, -7205>>, <<8144, 8145, 1, 8>>,
    <<8160, 8161, 1, 8>>, <<8165, 8165, 1, 7>>, <<8526, 8526, 1, -28>>, <<8560, 8575, 1, -16>>,
    <<8580, 8580, 1, -1>>, <<9424, 9449, 1, -26>>, <<11312, 11359, 1, -48>>,
    <<11361, 11361, 1, -1>>, <<11365, 11365, 1, -10795>>, <<11366, 11366, 1, -10792>>,
    <<11368, 11372, 2, -1>>, <<11379, 11379, 1, -1>>, <<11382, 11382, 1, -1>>,
    <<11393, 11491, 2, -1>>, <<11500, 11502, 2, -1>>, <<11507, 11507, 1, -1>>,
    <<11520, 11557, 1, -7264>>, <<11559, 11559, 1, -7264>>, <<11565, 11565, 1, -7264>>,
    <<42561, 42605, 2, -1>>, <<42625, 42651, 2, -1>>, <<42787, 42799, 2, -1>>,
    <<42803, 42863, 2, -1>>, <<42874, 42876, 2, -1>>, <<42879, 42887, 2, -1>>,
    <<42892, 42892, 1, -1>>, <<42897, 42899, 2, -1>>, <<42900, 42900, 1, 48>>,
    <<42903, 42921, 2, -1>>, <<42933, 42947, 2, -1>>, <<42952, 42954, 2, -1>>,
    <<42957, 42971, 2, -1>>, <<42998, 42998, 1, -1>>, <<43859, 43859, 1, -928>>,
    <<43888, 43967, 1, -38864>>, <<65345, 65370, 1, -32>>, <<66600, 66639, 1, -40>>,
    <<66776, 66811, 1, -40>>, <<66967, 67003, 2, -39>>, <<66968, 66977, 1, -39>>,
    <<66980, 66993, 1, -39>>, <<66996, 67001, 1, -39>>, <<67004, 67004, 1, -39>>,
    <<68800, 68850, 1, -64>>, <<68976, 68997, 1, -32>>, <<71872, 71903, 1, -32>>,
    <<93792, 93823, 1, -32>>, <<93883, 93907, 1, -27>>, <<125218, 125251, 1, -34>>>>

\* the code points that become two or three, and what they become
UPPERCASE_TABLE_MULTI ==
  <<<<223, <<83, 83>>>>, <<329, <<700, 78>>>>, <<496, <<74, 780>>>>, <<912, <<921, 776, 769>>>>,
    <<944, <<933, 776, 769>>>>, <<1415, <<1333, 1362>>>>, <<7830, <<72, 817>>>>,
    <<7831, <<84, 776>>>>, <<7832, <<87, 778>>>>, <<7833, <<89, 778>>>>, <<7834, <<65, 702>>>>,
    <<8016, <<933, 787>>>>, <<8018, <<933, 787, 768>>>>, <<8020, <<933, 787, 769>>>>,
    <<8022, <<933, 787, 834>>>>, <<8064, <<7944, 921>>>>, <<8065, <<7945, 921>>>>,
    <<8066, <<7946, 921>>>>, <<8067, <<7947, 921>>>>, <<8068, <<7948, 921>>>>,
    <<8069, <<7949, 921>>>>, <<8070, <<7950, 921>>>>, <<8071, <<7951, 921>>>>,
    <<8072, <<7944, 921>>>>, <<8073, <<7945, 921>>>>, <<8074, <<7946, 921>>>>,
    <<8075, <<7947, 921>>>>, <<8076, <<7948, 921>>>>, <<8077, <<7949, 921>>>>,
    <<8078, <<7950, 921>>>>, <<8079, <<7951, 921>>>>, <<8080, <<7976, 921>>>>,
    <<8081, <<7977, 921>>>>, <<8082, <<7978, 921>>>>, <<8083, <<7979, 921>>>>,
    <<8084, <<7980, 921>>>>, <<8085, <<7981, 921>>>>, <<8086, <<7982, 921>>>>,
    <<8087, <<7983, 921>>>>, <<8088, <<7976, 921>>>>, <<8089, <<7977, 921>>>>,
    <<8090, <<7978, 921>>>>, <<8091, <<7979, 921>>>>, <<8092, <<7980, 921>>>>,
    <<8093, <<7981, 921>>>>, <<8094, <<7982, 921>>>>, <<8095, <<7983, 921>>>>,
    <<8096, <<8040, 921>>>>, <<8097, <<8041, 921>>>>, <<8098, <<8042, 921>>>>,
    <<8099, <<8043, 921>>>>, <<8100, <<8044, 921>>>>, <<8101, <<8045, 921>>>>,
    <<8102, <<8046, 921>>>>, <<8103, <<8047, 921>>>>, <<8104, <<8040, 921>>>>,
    <<8105, <<8041, 921>>>>, <<8106, <<8042, 921>>>>, <<8107, <<8043, 921>>>>,
    <<8108, <<8044, 921>>>>, <<8109, <<8045, 921>>>>, <<8110, <<8046, 921>>>>,
    <<8111, <<8047, 921>>>>, <<8114, <<8122, 921>>>>, <<8115, <<913, 921>>>>,
    <<8116, <<902, 921>>>>, <<8118, <<913, 834>>>>, <<8119, <<913, 834, 921>>>>,
    <<8124, <<913, 921>>>>, <<8130, <<8138, 921>>>>, <<8131, <<919, 921>>>>,
    <<8132, <<905, 921>>>>, <<8134, <<919, 834>>>>, <<8135, <<919, 834, 921>>>>,
    <<8140, <<919, 921>>>>, <<8146, <<921, 776, 768>>>>, <<8147, <<921, 776, 769>>>>,
    <<8150, <<921, 834>>>>, <<8151, <<921, 776, 834>>>>, <<8162, <<933, 776, 768>>>>,
    <<8163, <<933, 776, 769>>>>, <<8164, <<929, 787>>>>, <<8166, <<933, 834>>>>,
    <<8167, <<933, 776, 834>>>>, <<8178, <<8186, 921>>>>, <<8179, <<937, 921>>>>,
    <<8180, <<911, 921>>>>, <<8182, <<937, 834>>>>, <<8183, <<937, 834, 921>>>>,
    <<8188, <<937, 921>>>>, <<64256, <<70, 70>>>>, <<64257, <<70, 73>>>>, <<64258, <<70, 76>>>>,
    <<64259, <<70, 70, 73>>>>, <<64260, <<70, 70, 76>>>>, <<64261, <<83, 84>>>>,
    <<64262, <<83, 84>>>>, <<64275, <<1348, 1350>>>>, <<64276, <<1348, 1333>>>>,
    <<64277, <<1348, 1339>>>>, <<64278, <<1358, 1350>>>>, <<64279, <<1348, 1341>>>>>>

\* unicode::conversions::to_upper on the code point n; a code point that no
\* table covers stays
to_upper(n) ==
  LET Covers(r) == n >= r[1] /\ n <= r[2] /\ (n - r[1]) % r[3] = 0
      Ranged(t) == IF \E i \in DOMAIN t : Covers(t[i])
                   THEN <<n + t[CHOOSE i \in DOMAIN t : Covers(t[i])][4]>>
                   ELSE <<n>>
      Multi(t) == IF \E i \in DOMAIN t : t[i][1] = n
                  THEN t[CHOOSE i \in DOMAIN t : t[i][1] = n][2]
                  ELSE Ranged(UPPERCASE_TABLE)
  IN IF n < 128 THEN <<IF n >= 97 /\ n <= 122 THEN n - 32 ELSE n>>
     ELSE Multi(UPPERCASE_TABLE_MULTI)

\* char::to_uppercase: the characters that c becomes
UpperChar(c) ==
  LET \* the code point that the bytes b of one character encode
      Decoded(b) ==
        CASE Len(b) = 1 -> b[1]
          [] Len(b) = 2 -> (b[1] - 192) * 64 + (b[2] - 128)
          [] Len(b) = 3 -> (b[1] - 224) * 4096 + (b[2] - 128) * 64 + (b[3] - 128)
          [] Len(b) = 4 -> (b[1] - 240) * 262144 + (b[2] - 128) * 4096 + (b[3] - 128) * 64
                           + (b[4] - 128)
      Chars_(u) == [i \in 1..Len(u) |-> CharOf(Encoded_utf8(u[i]))]
  IN Chars_(to_upper(Decoded(encode_utf8(c))))

\* str::to_uppercase
RECURSIVE to_uppercase(_)
to_uppercase(s) == IF s = <<>> THEN <<>> ELSE UpperChar(Head(s)) \o to_uppercase(Tail(s))

\* str::ends_with
ends_with(s, suffix) ==
  /\ Len(suffix) <= Len(s)
  /\ SubSeq(s, Len(s) - Len(suffix) + 1, Len(s)) = suffix

\* str::find(c).is_some()
contains(s, c) == \E i \in 1..Len(s) : s[i] = c

\* String::pop: drops the last character, if there is one
pop(s) == IF Len(s) = 0 THEN s ELSE SubSeq(s, 1, Len(s) - 1)

RECURSIVE NatToString(_)
NatToString(n) ==
  IF n < 10 THEN <<Digits[n + 1]>>
  ELSE Append(NatToString(n \div 10), Digits[(n % 10) + 1])

\* the decimal text of a small integer
IntToString(n) == IF n < 0 THEN <<"-">> \o NatToString(-n) ELSE NatToString(n)

(***************************************************************************)
(* Native integers.  An integer of a native width is its bit pattern: a    *)
(* sequence of 1, 2, 4 or 8 bytes, the least significant first (signed     *)
(* types in two's complement).                                             *)
(***************************************************************************)
Byte == 256
SignBit == 128

IsZero(w) == \A i \in 1..Len(w) : w[i] = 0

\* the k bytes of the natural number n
RECURSIVE Bytes(_, _)
Bytes(n, k) == IF k = 0 THEN <<>> ELSE <<n % Byte>> \o Bytes(n \div Byte, k - 1)

\* w + 1 in the width of w
RECURSIVE AddOne(_)
AddOne(w) ==
  IF w = <<>> THEN <<>>
  ELSE IF w[1] = Byte - 1 THEN <<0>> \o AddOne(Tail(w))
  ELSE <<w[1] + 1>> \o Tail(w)

\* -w in two's complement: for a negative w, its magnitude as an unsigned word
Negate(w) == AddOne([i \in 1..Len(w) |-> Byte - 1 - w[i]])

IsNegative(w) == w[Len(w)] >= SignBit

\* the i64 of the small integer n
I64(n) == IF n < 0 THEN Negate(Bytes(-n, 8)) ELSE Bytes(n, 8)

\* mutant of i64_from: the upper bytes are filled with zeros
i64_from_zero_filled(w) == w \o [i \in 1..(8 - Len(w)) |-> 0]

\* i64::from of an i8, i16 or i32: the sign fills the upper bytes
i64_from(w) == w \o [i \in 1..(8 - Len(w)) |-> IF IsNegative(w) THEN Byte - 1 ELSE 0]

\* u64::from of a u8, u16 or u32
u64_from(w) == w \o [i \in 1..(8 - Len(w)) |-> 0]

\* quotient and remainder by 10 of the unsigned word w with rem put above
\* its most significant byte
RECURSIVE Div10(_, _)
Div10(w, rem) ==
  IF w = <<>> THEN [q |-> <<>>, r |-> rem]
  ELSE LET n == Len(w)
           cur == rem * Byte + w[n]
           low == Div10(SubSeq(w, 1, n - 1), cur % 10)
       IN [q |-> Append(low.q, cur \div 10), r |-> low.r]

\* u64::to_string
RECURSIVE u64_to_string(_)
u64_to_string(w) ==
  LET d == Div10(w, 0)
  IN IF IsZero(d.q) THEN <<Digits[d.r + 1]>>
     ELSE Append(u64_to_string(d.q), Digits[d.r + 1])

\* i64::to_string
i64_to_string(w) ==
  IF IsNegative(w) THEN <<"-">> \o u64_to_string(Negate(w)) ELSE u64_to_string(w)

(***************************************************************************)
(* Floating point.  An f32 or f64 is its bit pattern, 4 or 8 bytes, the    *)
(* least significant first.  f64::to_string writes the shortest decimal    *)
(* numeral that reads back as the same f64, without exponent; it is        *)
(* computed on natural numbers of any size (Big: bytes, least significant  *)
(* first, of any length).                                                  *)
(***************************************************************************)
Pad(a, n) == a \o [i \in 1..(n - Len(a)) |-> 0]

Longer(a, b) == IF Len(a) >= Len(b) THEN Len(a) ELSE Len(b)

\* -1, 0 or 1 as a is below, equal to or above b, both of the same length
CmpSame(a, b) ==
  IF \A i \in 1..Len(a) : a[i] = b[i] THEN 0
  ELSE LET i == CHOOSE i \in 1..Len(a) : a[i] # b[i] /\ \A j \in (i + 1)..Len(a) : a[j] = b[j]
       IN IF a[i] > b[i] THEN 1 ELSE -1

\* Big::cmp
Big_cmp(a, b) == CmpSame(Pad(a, Longer(a, b)), Pad(b, Longer(a, b)))

\* a + b + c for a and b of the same length: the sum in that length and the
\* carry out of it (the halves are added one after the other)
RECURSIVE AddCarry(_, _, _)
AddCarry(a, b, c) ==
  IF a = <<>> THEN [w |-> <<>>, c |-> c]
  ELSE IF Len(a) = 1 THEN [w |-> <<(a[1] + b[1] + c) % Byte>>, c |-> (a[1] + b[1] + c) \div Byte]
  ELSE LET h == Len(a) \div 2
           lo == AddCarry(SubSeq(a, 1, h), SubSeq(b, 1, h), c)
           hi == AddCarry(SubSeq(a, h + 1, Len(a)), SubSeq(b, h + 1, Len(a)), lo.c)
       IN [w |-> lo.w \o hi.w, c |-> hi.c]

\* Big::add
Big_add(a, b) ==
  LET s == AddCarry(Pad(a, Longer(a, b)), Pad(b, Longer(a, b)), 0)
  IN IF s.c = 0 THEN s.w ELSE Append(s.w, s.c)

\* a - b - c for a and b of the same length, and the borrow out of it
RECURSIVE SubBorrow(_, _, _)
SubBorrow(a, b, c) ==
  IF a = <<>> THEN [w |-> <<>>, c |-> c]
  ELSE IF Len(a) = 1 THEN [w |-> <<(a[1] - b[1] - c) % Byte>>, c |-> IF a[1] - b[1] - c < 0 THEN 1 ELSE 0]
  ELSE LET h == Len(a) \div 2
           lo == SubBorrow(SubSeq(a, 1, h), SubSeq(b, 1, h), c)
           hi == SubBorrow(SubSeq(a, h + 1, Len(a)), SubSeq(b, h + 1, Len(a)), lo.c)
       IN [w |-> lo.w \o hi.w, c |-> hi.c]

\* Big::sub, for a >= b
Big_sub(a, b) == SubBorrow(Pad(a, Longer(a, b)), Pad(b, Longer(a, b)), 0).w

\* a * m + c in the length of a, and the carry out of it
RECURSIVE MulCarry(_, _, _)
MulCarry(a, m, c) ==
  IF a = <<>> THEN [w |-> <<>>, c |-> c]
  ELSE IF Len(a) = 1 THEN [w |-> <<(a[1] * m + c) % Byte>>, c |-> (a[1] * m + c) \div Byte]
  ELSE LET h == Len(a) \div 2
           lo == MulCarry(SubSeq(a, 1, h), m, c)
           hi == MulCarry(SubSeq(a, h + 1, Len(a)), m, lo.c)
       IN [w |-> lo.w \o hi.w, c |-> hi.c]

\* Big::mul_small, for m < 256
mul_small(a, m) ==
  LET p == MulCarry(a, m, 0) IN IF p.c = 0 THEN p.w ELSE Append(p.w, p.c)

\* Big::mul_pow2
mul_pow2(a, n) == [i \in 1..(n \div 8) |-> 0] \o mul_small(a, 2^(n % 8))

\* the fields of a bit pattern: sign, biased exponent, fraction
unpack_f32(w) ==
  [neg |-> w[4] >= SignBit, e |-> (w[4] % SignBit) * 2 + (w[3] \div SignBit),
   m |-> <<w[1], w[2], w[3] % SignBit>>]

unpack_f64(w) ==
  [neg |-> w[8] >= SignBit, e |-> (w[8] % SignBit) * 16 + (w[7] \div 16),
   m |-> <<w[1], w[2], w[3], w[4], w[5], w[6], w[7] % 16>>]

pack_f64(neg, e, m) ==
  LET f == Pad(m, 7)
  IN <<f[1], f[2], f[3], f[4], f[5], f[6], (e % 16) * 16 + f[7],
       (IF neg THEN SignBit ELSE 0) + (e \div 16)>>

\* a subnormal f32 fraction doubled until its top bit is bit 23, and the
\* number of doublings
RECURSIVE Normalized(_, _)
Normalized(m, n) ==
  IF m[3] >= SignBit THEN [m |-> m, n |-> n]
  ELSE Normalized(SubSeq(Pad(mul_small(m, 2), 3), 1, 3), n + 1)

\* the 23 bits of an f32 fraction as the top bits of the 52 of an f64
Widened(m) == SubSeq(Pad(mul_pow2(m, 29), 7), 1, 7)

\* f64::from of an f32: the same value, exactly; a NaN keeps sign and payload
\* and comes out quiet, as the build's conversion instruction leaves it (the
\* language leaves the bits of a NaN result open; its text is NaN whatever
\* they are)
f64_from(w) ==
  LET v == unpack_f32(w)
      \* the fraction f with the quiet bit (the top one of the 52) set
      Quieted(f) == [f EXCEPT ![7] = IF @ >= 8 THEN @ ELSE @ + 8]
  IN
  IF v.e = 255
  THEN pack_f64(v.neg, 2047, IF IsZero(v.m) THEN <<>> ELSE Quieted(Widened(v.m)))
  ELSE IF v.e = 0
  THEN IF IsZero(v.m) THEN pack_f64(v.neg, 0, <<>>)
       ELSE LET nm == Normalized(v.m, 0)
            IN pack_f64(v.neg, 897 - nm.n,
                        Widened(<<nm.m[1], nm.m[2], nm.m[3] - SignBit>>))
  ELSE pack_f64(v.neg, v.e + 896, Widened(v.m))

\* flt2dec::decode of a finite f64 that is not zero: the value is
\* mant * 2^exp, the numbers that round to it lie mant - minus .. mant + plus
decode(v) ==
  LET even == v.m[1] % 2 = 0 IN
  IF v.e = 0
  THEN [mant |-> mul_small(v.m, 2), minus |-> <<1>>, plus |-> <<1>>,
        exp |-> -1075, inclusive |-> TRUE]
  ELSE LET mant == Big_add(v.m, <<0, 0, 0, 0, 0, 0, 16>>)
       IN IF IsZero(v.m)
          THEN [mant |-> mul_small(mant, 4), minus |-> <<1>>, plus |-> <<2>>,
                exp |-> v.e - 1077, inclusive |-> even]
          ELSE [mant |-> mul_small(mant, 2), minus |-> <<1>>, plus |-> <<1>>,
                exp |-> v.e - 1076, inclusive |-> even]

\* a < b, or a <= b when the bounds are included
Below(a, b, inclusive) == Big_cmp(a, b) < (IF inclusive THEN 1 ELSE 0)

\* Big::mul_pow10
RECURSIVE mul_pow10(_, _)
mul_pow10(a, n) ==
  IF n = 0 THEN a
  ELSE IF n = 1 THEN mul_small(a, 10)
  ELSE LET half == mul_pow10(a, n \div 2)
       IN IF half = <<>> THEN half ELSE mul_pow10(half, n - (n \div 2))

\* the n with 2^(n-1) < a <= 2^n, for a > 0
BitsBelow(a) ==
  CHOOSE n \in 0..(8 * Len(a)) :
    /\ Big_cmp(a, mul_pow2(<<1>>, n)) <= 0
    /\ n > 0 => Big_cmp(a, mul_pow2(<<1>>, n - 1)) > 0

\* flt2dec estimate_scaling_factor: floor((nbits + exp) * log10(2)), a k
\* with 10^(k-1) < mant * 2^exp <= 10^(k+1)
estimate_scaling_factor(mant, exp) == ((BitsBelow(mant) + exp) * 30103) \div 100000

\* quotient (below 10) and remainder of mant by scale
RECURSIVE DivRem(_, _, _)
DivRem(mant, scale, q) ==
  IF Big_cmp(mant, scale) >= 0 THEN DivRem(Big_sub(mant, scale), scale, q + 1)
  ELSE [q |-> q, r |-> mant]

\* flt2dec round_up: the digits plus one in the last place; all nines become
\* 1 and zeros, one digit more
round_up(ds) ==
  IF \A i \in 1..Len(ds) : ds[i] = 9
  THEN [d |-> <<1>> \o [i \in 1..Len(ds) |-> 0], carried |-> TRUE]
  ELSE LET i == CHOOSE i \in 1..Len(ds) : ds[i] # 9 /\ \A j \in (i + 1)..Len(ds) : ds[j] = 9
       IN [d |-> [j \in 1..Len(ds) |-> IF j < i THEN ds[j] ELSE IF j = i THEN ds[j] + 1 ELSE 0],
           carried |-> FALSE]

\* the digit loop of format_shortest
\* the loop of format_shortest, the digits after ds: Digit takes the next
\* digit and the remainder; down and up tell whether the digits so far, and
\* the digits so far rounded up, lie in the rounding interval
RECURSIVE Generated(_, _, _, _, _, _, _)
Generated(mant, minus, plus, scale, inclusive, ds, k) ==
  LET RoundedUp(r) == [d |-> r.d, k |-> IF r.carried THEN k + 1 ELSE k]
      Decided(rem, ds1, down, up) ==
        IF down \/ up
        THEN IF up /\ (~down \/ Big_cmp(mul_small(rem, 2), scale) >= 0)
             THEN RoundedUp(round_up(ds1))
             ELSE [d |-> ds1, k |-> k]
        ELSE Generated(mul_small(rem, 10), mul_small(minus, 10), mul_small(plus, 10),
                       scale, inclusive, ds1, k)
      Digit(qr) ==
        Decided(qr.r, Append(ds, qr.q), Below(qr.r, minus, inclusive),
                Below(scale, Big_add(qr.r, plus), inclusive))
  IN Digit(DivRem(mant, scale, 0))

\* flt2dec format_shortest: the digits d and the exponent k of the shortest
\* numeral 0.d * 10^k in the rounding interval, the closest to the value.
\* With the estimate k of the exponent, all is multiplied by 2^up and
\* 10^down10, the scale by 2^(-exp) and 10^k, where these are positive; the
\* estimate is corrected, then the digits are generated
format_shortest(dec) ==
  LET Fixup(mant, minus, plus, scale, k) ==
        IF Below(scale, Big_add(mant, plus), dec.inclusive)
        THEN Generated(mant, minus, plus, scale, dec.inclusive, <<>>, k + 1)
        ELSE Generated(mul_small(mant, 10), mul_small(minus, 10), mul_small(plus, 10),
                       scale, dec.inclusive, <<>>, k)
      Scaled(k, up, down10) ==
        Fixup(mul_pow10(mul_pow2(dec.mant, up), down10),
              mul_pow10(mul_pow2(dec.minus, up), down10),
              mul_pow10(mul_pow2(dec.plus, up), down10),
              mul_pow10(mul_pow2(<<1>>, IF dec.exp < 0 THEN -dec.exp ELSE 0),
                        IF k < 0 THEN 0 ELSE k),
              k)
      Estimated(k) == Scaled(k, IF dec.exp < 0 THEN 0 ELSE dec.exp, IF k < 0 THEN -k ELSE 0)
  IN Estimated(estimate_scaling_factor(Big_add(dec.mant, dec.plus), dec.exp))

\* flt2dec digits_to_dec_str: 0.d * 10^k written without exponent
digits_to_dec_str(d, k) ==
  LET ds == [i \in 1..Len(d) |-> Digits[d[i] + 1]]
      Zeros(n) == [i \in 1..n |-> "0"]
  IN
  IF k <= 0 THEN <<"0", ".">> \o Zeros(-k) \o ds
  ELSE IF k < Len(ds) THEN SubSeq(ds, 1, k) \o <<".">> \o SubSeq(ds, k + 1, Len(ds))
  ELSE ds \o Zeros(k - Len(ds))

\* f64::to_string
f64_to_string(w) ==
  LET v == unpack_f64(w)
      sign == IF v.neg THEN <<"-">> ELSE <<>>
      to_dec_str(f) == digits_to_dec_str(f.d, f.k)
  IN IF v.e = 2047 THEN (IF IsZero(v.m) THEN sign \o <<"i","n","f">> ELSE <<"N","a","N">>)
     ELSE IF v.e = 0 /\ IsZero(v.m) THEN sign \o <<"0">>
     ELSE sign \o to_dec_str(format_shortest(decode(v)))

(***************************************************************************)
(* Bytes as text.                                                          *)
(***************************************************************************)
\* the number of bytes of the character that starts with byte b, 0 if none does
CharLen(b) ==
  IF b < 128 THEN 1
  ELSE IF b >= 194 /\ b <= 223 THEN 2
  ELSE IF b >= 224 /\ b <= 239 THEN 3
  ELSE IF b >= 240 /\ b <= 244 THEN 4
  ELSE 0

\* may byte c follow the first byte b of a character
SecondByte(b, c) ==
  CASE b = 224 -> c >= 160 /\ c <= 191
    [] b = 237 -> c >= 128 /\ c <= 159
    [] b = 240 -> c >= 144 /\ c <= 191
    [] b = 244 -> c >= 128 /\ c <= 143
    [] OTHER -> c >= 128 /\ c <= 191

\* String::from_utf8: <<the text>>, or <<>> when the bytes are not UTF-8
RECURSIVE from_utf8(_)
from_utf8(v) ==
  IF v = <<>> THEN <<<<>>>>
  ELSE LET n == CharLen(v[1]) IN
       IF n = 0 \/ n > Len(v) THEN <<>>
       ELSE IF n >= 2 /\ ~SecondByte(v[1], v[2]) THEN <<>>
       ELSE IF \E i \in 3..n : v[i] < 128 \/ v[i] > 191 THEN <<>>
       ELSE LET rest == from_utf8(SubSeq(v, n + 1, Len(v)))
            IN IF rest = <<>> THEN <<>>
               ELSE <<<<CharOf(SubSeq(v, 1, n))>> \o rest[1]>>

(***************************************************************************)
(* The Serializer's methods: each takes the Serializer (a record of its    *)
(* fields, with err = "none" while no method has failed, msg the text of a  *)
(* Message error, and frames, the branch each open newtype variant took)   *)
(* and returns it after the call.                                          *)
(***************************************************************************)
Fail(s, e) == [s EXCEPT !.err = e]

\* ser::Error::custom, returned by a method: Message with the text given
custom(s, text) == [s EXCEPT !.err = "Message", !.msg = text]

\* mutant of new: the namespace prefix is kept as given
new_keep_case(prefix) ==
  [ output |-> <<>>, base_prefix |-> prefix, prefix |-> <<>>,
    key |-> FALSE, sequence |-> FALSE, prefix_before |-> <<>>,
    frames |-> <<>>, err |-> "none", msg |-> "" ]

\* Serializer::new
new(prefix) ==
  [ output |-> <<>>, base_prefix |-> to_uppercase(prefix), prefix |-> <<>>,
    key |-> FALSE, sequence |-> FALSE, prefix_before |-> <<>>,
    frames |-> <<>>, err |-> "none", msg |-> "" ]

RECURSIVE strip(_)
strip(out) == IF Len(out) > 0 /\ out[Len(out)] = "\n" THEN strip(pop(out)) ELSE out

\* Serializer::strip_line_breaks
strip_line_breaks(s) == [s EXCEPT !.output = strip(@)]

serialize_bool(s, v) ==
  [s EXCEPT !.output = @ \o (IF v THEN <<"t","r","u","e">> ELSE <<"f","a","l","s","e">>)]

serialize_i64(s, v) == [s EXCEPT !.output = @ \o i64_to_string(v)]
serialize_i8(s, v) == serialize_i64(s, i64_from(v))
serialize_i16(s, v) == serialize_i64(s, i64_from(v))
serialize_i32(s, v) == serialize_i64(s, i64_from(v))

serialize_u64(s, v) == [s EXCEPT !.output = @ \o u64_to_string(v)]
serialize_u8(s, v) == serialize_u64(s, u64_from(v))
serialize_u16(s, v) == serialize_u64(s, u64_from(v))
serialize_u32(s, v) == serialize_u64(s, u64_from(v))

serialize_f64(s, v) == [s EXCEPT !.output = @ \o f64_to_string(v)]
serialize_f32(s, v) == serialize_f64(s, f64_from(v))

\* the framework's serialize_i128 and serialize_u128, which the Serializer
\* does not replace
serialize_i128(s, v) == custom(s, "i128 is not supported")
serialize_u128(s, v) == custom(s, "u128 is not supported")

\* the key check of serialize_str
ForbiddenInKey(k) ==
  contains(k, " ") \/ contains(k, "#") \/ contains(k, "\"") \/ contains(k, "'")

\* a string with a backslash put before every double quote and backslash
RECURSIVE Escaped(_)
Escaped(v) ==
  IF v = <<>> THEN <<>>
  ELSE (IF Head(v) \in {"\"", "\\"} THEN <<"\\", Head(v)>> ELSE <<Head(v)>>)
       \o Escaped(Tail(v))

\* mutant of serialize_str: a string in value position is escaped
serialize_str_escaped(s, v) ==
  IF s.key
  THEN LET p1 == IF s.prefix # <<>> THEN Append(s.prefix, "_") ELSE s.prefix
           p2 == p1 \o to_uppercase(v)
           k  == s.base_prefix \o p2
       IN IF ForbiddenInKey(k)
          THEN Fail([s EXCEPT !.prefix = p2], "Syntax")
          ELSE [s EXCEPT !.prefix = p2, !.output = @ \o k]
  ELSE IF v # <<>>
       THEN [s EXCEPT !.output = @ \o <<"\"">> \o Escaped(v) \o <<"\"">>]
       ELSE s

\* mutant of serialize_str: the key is written before it is checked
serialize_str_write_first(s, v) ==
  IF s.key
  THEN LET p1 == IF s.prefix # <<>> THEN Append(s.prefix, "_") ELSE s.prefix
           p2 == p1 \o to_uppercase(v)
           k  == s.base_prefix \o p2
           s1 == [s EXCEPT !.prefix = p2, !.output = @ \o k]
       IN IF ForbiddenInKey(k) THEN Fail(s1, "Syntax") ELSE s1
  ELSE IF v # <<>>
       THEN [s EXCEPT !.output = @ \o <<"\"">> \o v \o <<"\"">>]
       ELSE s

serialize_str(s, v) ==
  IF s.key
  THEN LET p1 == IF s.prefix # <<>> THEN Append(s.prefix, "_") ELSE s.prefix
           p2 == p1 \o to_uppercase(v)
           k  == s.base_prefix \o p2
       IN IF ForbiddenInKey(k)
          THEN Fail([s EXCEPT !.prefix = p2], "Syntax")
          ELSE [s EXCEPT !.prefix = p2, !.output = @ \o k]
  ELSE IF v # <<>>
       THEN [s EXCEPT !.output = @ \o <<"\"">> \o v \o <<"\"">>]
       ELSE s

\* v is one character
serialize_char(s, v) == serialize_str(s, <<v>>)

serialize_bytes(s, v) ==
  LET t == from_utf8(v)
  IN IF t = <<>> THEN Fail(s, "Syntax") ELSE serialize_str(s, t[1])

\* mutant of serialize_unit: nothing is spelled out
serialize_unit_null(s) == [s EXCEPT !.output = @ \o <<"n","u","l","l">>]

\* serialize_none, serialize_unit, serialize_unit_struct
serialize_unit(s) == s

\* serialize_newtype_variant up to the payload
newtype_variant_begin(s, variant) ==
  IF s.sequence
  THEN [s EXCEPT !.frames = Append(@, FALSE)]
  ELSE LET s1 == serialize_str([s EXCEPT !.key = TRUE], variant)
       IN IF s1.err # "none" THEN s1
          ELSE [s1 EXCEPT !.key = FALSE, !.output = @ \o <<"=">>,
                          !.frames = Append(@, TRUE)]

\* serialize_newtype_variant after the payload
newtype_variant_end(s) ==
  LET keyed == s.frames[Len(s.frames)]
      s1 == [s EXCEPT !.frames = SubSeq(@, 1, Len(@) - 1)]
  IN IF keyed THEN [s1 EXCEPT !.output = @ \o <<"\n">>] ELSE s1

\* serialize_seq, serialize_tuple, serialize_tuple_struct
serialize_seq(s) ==
  IF s.sequence THEN Fail(s, "UnsupportedStructureInSeq")
  ELSE [s EXCEPT !.sequence = TRUE]

serialize_tuple_variant(s) == s

\* serialize_element / serialize_field of a sequence, tuple, tuple struct or
\* tuple variant, after the element's own serialization returned
element_end(s) == [s EXCEPT !.output = @ \o <<",">>]

\* mutant of seq_end: the "," after the last element is left in place
seq_end_keep_comma(s) == strip_line_breaks([s EXCEPT !.sequence = FALSE])

\* SerializeSeq::end, SerializeTuple::end
seq_end(s) == strip_line_breaks([s EXCEPT !.output = pop(@), !.sequence = FALSE])

\* SerializeTupleStruct::end
tuple_end(s) == [s EXCEPT !.output = pop(@), !.sequence = FALSE]

\* SerializeTupleVariant::end
tuple_variant_end(s) == [s EXCEPT !.output = pop(@), !.sequence = FALSE]

\* serialize_map, serialize_struct, serialize_struct_variant
serialize_map(s) ==
  IF s.sequence THEN Fail(s, "UnsupportedStructureInSeq") ELSE s

\* SerializeMap::end, SerializeStruct::end, SerializeStructVariant::end
map_end(s) == strip_line_breaks(s)

RECURSIVE Run(_, _), Walk(_, _, _), WalkElements(_, _, _), WalkFields(_, _, _)
RECURSIVE WalkEntries(_, _, _)

\* the key k is a value of any type: it is serialized by this Serializer with
\* key set
serialize_map_struct_key(s, k) ==
  IF s.sequence THEN Fail(s, "UnsupportedStructureInSeq")
  ELSE LET s1 == [s EXCEPT !.prefix_before = s.prefix]
           stub == Append(s1.prefix, "=")
           s2 == IF ends_with(s1.output, stub)
                 THEN [s1 EXCEPT !.output = SubSeq(@, 1, Len(@) - Len(stub))]
                 ELSE s1
           KeyDone(s3) == IF s3.err # "none" THEN s3 ELSE [s3 EXCEPT !.key = FALSE]
       IN KeyDone(Run([s2 EXCEPT !.key = TRUE], Walk(k, 0, <<>>)))

\* serialize_map_struct_value up to the value
value_begin(s) ==
  IF s.sequence THEN Fail(s, "UnsupportedStructureInSeq")
  ELSE [s EXCEPT !.output = @ \o <<"=">>]

\* serialize_map_struct_value after the value
value_end(s) == [s EXCEPT !.output = @ \o <<"\n">>, !.prefix = s.prefix_before]

(***************************************************************************)
(* Values, and the calls the framework makes for each.                     *)
(***************************************************************************)
VBool(b) == [k |-> "bool", b |-> b]
VInt(n) == [k |-> "int", n |-> n]
\* an integer of type ty ("i8" .. "u64", "i128", "u128") with the bytes w
VNative(ty, w) == [k |-> "native", ty |-> ty, w |-> w]
\* a float of type ty ("f32", "f64") with the bytes w
VFloat(ty, w) == [k |-> "float", ty |-> ty, w |-> w]
\* the character c, a string of length one
VChar(c) == [k |-> "char", c |-> c]
VBytes(bs) == [k |-> "bytes", w |-> bs]
VStr(t) == [k |-> "str", s |-> t]
VNone == [k |-> "none"]
VSome(x) == [k |-> "some", x |-> x]
VUnitVariant(name) == [k |-> "unit_variant", s |-> name]
VSeq(es) == [k |-> "seq", e |-> es]
VTupleStruct(es) == [k |-> "tuple_struct", e |-> es]
VTupleVariant(es) == [k |-> "tuple_variant", e |-> es]
VStruct(fs) == [k |-> "struct", f |-> fs]
\* a map whose keys are values of any type
VMap(es) == [k |-> "map", m |-> es]
Entry(k, x) == [key |-> k, val |-> x]
VNewtypeVariant(name, x) == [k |-> "newtype_variant", s |-> name, x |-> x]
Field(name, x) == [name |-> name, val |-> x]

\* one call: op, its string (or bytes, or key) and integer arguments, d = the number of open
\* elements around it, path = the key path of the call's place in the value
\* tree: the names of the fields and keys around it, joined.  The path is
\* where the call stands, not a field of the Serializer; the Serializer keeps
\* its own in prefix
Call(op, t, n, d, path) == [op |-> op, s |-> t, n |-> n, d |-> d, path |-> path]

JoinPath(path, name) ==
  (IF path # <<>> THEN Append(path, "_") ELSE path) \o to_uppercase(name)

Walk(v, d, path) ==
  CASE v.k = "bool" -> <<Call("bool", <<>>, IF v.b THEN 1 ELSE 0, d, path)>>
    [] v.k = "int" -> <<Call("i64", I64(v.n), 0, d, path)>>
    [] v.k = "native" -> <<Call(v.ty, v.w, 0, d, path)>>
    [] v.k = "float" -> <<Call(v.ty, v.w, 0, d, path)>>
    [] v.k = "char" -> <<Call("char", v.c, 0, d, path)>>
    [] v.k = "bytes" -> <<Call("bytes", v.w, 0, d, path)>>
    [] v.k = "str" -> <<Call("str", v.s, 0, d, path)>>
    [] v.k = "unit_variant" -> <<Call("str", v.s, 0, d, path)>>
    [] v.k = "none" -> <<Call("none", <<>>, 0, d, path)>>
    \* serialize_some hands the payload to the same Serializer
    [] v.k = "some" -> Walk(v.x, d, path)
    [] v.k = "seq" ->
         <<Call("seq_begin", <<>>, 0, d, path)>> \o WalkElements(v.e, d, path)
         \o <<Call("seq_end", <<>>, 0, d, path)>>
    [] v.k = "tuple_struct" ->
         <<Call("seq_begin", <<>>, 0, d, path)>> \o WalkElements(v.e, d, path)
         \o <<Call("tuple_end", <<>>, 0, d, path)>>
    [] v.k = "tuple_variant" ->
         <<Call("tuple_variant_begin", <<>>, 0, d, path)>> \o WalkElements(v.e, d, path)
         \o <<Call("tuple_variant_end", <<>>, 0, d, path)>>
    [] v.k = "struct" ->
         <<Call("map_begin", <<>>, 0, d, path)>> \o WalkFields(v.f, d, path)
         \o <<Call("map_end", <<>>, 0, d, path)>>
    [] v.k = "map" ->
         <<Call("map_begin", <<>>, 0, d, path)>> \o WalkEntries(v.m, d, path)
         \o <<Call("map_end", <<>>, 0, d, path)>>
    [] v.k = "newtype_variant" ->
         <<Call("newtype_variant_begin", v.s, 0, d, path)>>
         \o Walk(v.x, d, JoinPath(path, v.s))
         \o <<Call("newtype_variant_end", <<>>, 0, d, path)>>

WalkElements(es, d, path) ==
  IF es = <<>> THEN <<>>
  ELSE Walk(Head(es), d + 1, path) \o <<Call("element_end", <<>>, 0, d + 1, path)>>
       \o WalkElements(Tail(es), d, path)

WalkFields(fs, d, path) ==
  IF fs = <<>> THEN <<>>
  ELSE LET f == Head(fs)
           fpath == JoinPath(path, f.name)
       IN <<Call("key", f.name, 0, d, fpath), Call("value_begin", <<>>, 0, d, fpath)>>
          \o Walk(f.val, d, fpath)
          \o <<Call("value_end", <<>>, 0, d, path)>>
          \o WalkFields(Tail(fs), d, path)

\* the key path under the key k of an entry of a map at path: serialize_key
\* hands k to the Serializer with key set, and every string that reaches
\* serialize_str then (a string, a character, bytes that are text, the
\* payload of Some, the name of a variant) is joined to the path
KeyPath(path, k) ==
  Run([new(<<>>) EXCEPT !.prefix = path, !.key = TRUE], Walk(k, 0, <<>>)).prefix

\* the entries of a map: the key is handed to serialize_key as it is
WalkEntries(es, d, path) ==
  IF es = <<>> THEN <<>>
  ELSE LET Entry_(e, epath) ==
             <<Call("map_key", e.key, 0, d, epath), Call("value_begin", <<>>, 0, d, epath)>>
             \o Walk(e.val, d, epath)
             \o <<Call("value_end", <<>>, 0, d, path)>>
       IN Entry_(Head(es), KeyPath(path, Head(es).key)) \o WalkEntries(Tail(es), d, path)

\* the Serializer after one call
Exec(s, c) ==
  CASE c.op = "bool" -> serialize_bool(s, c.n = 1)
    [] c.op = "i8" -> serialize_i8(s, c.s)
    [] c.op = "i16" -> serialize_i16(s, c.s)
    [] c.op = "i32" -> serialize_i32(s, c.s)
    [] c.op = "i64" -> serialize_i64(s, c.s)
    [] c.op = "u8" -> serialize_u8(s, c.s)
    [] c.op = "u16" -> serialize_u16(s, c.s)
    [] c.op = "u32" -> serialize_u32(s, c.s)
    [] c.op = "u64" -> serialize_u64(s, c.s)
    [] c.op = "i128" -> serialize_i128(s, c.s)
    [] c.op = "u128" -> serialize_u128(s, c.s)
    [] c.op = "f32" -> serialize_f32(s, c.s)
    [] c.op = "f64" -> serialize_f64(s, c.s)
    [] c.op = "char" -> serialize_char(s, c.s)
    [] c.op = "str" -> serialize_str(s, c.s)
    [] c.op = "bytes" -> serialize_bytes(s, c.s)
    [] c.op = "none" -> serialize_unit(s)
    [] c.op = "seq_begin" -> serialize_seq(s)
    [] c.op = "tuple_variant_begin" -> serialize_tuple_variant(s)
    [] c.op = "element_end" -> element_end(s)
    [] c.op = "seq_end" -> seq_end(s)
    [] c.op = "tuple_end" -> tuple_end(s)
    [] c.op = "tuple_variant_end" -> tuple_variant_end(s)
    [] c.op = "map_begin" -> serialize_map(s)
    [] c.op = "key" -> serialize_map_struct_key(s, VStr(c.s))
    [] c.op = "map_key" -> serialize_map_struct_key(s, c.s)
    [] c.op = "value_begin" -> value_begin(s)
    [] c.op = "value_end" -> value_end(s)
    [] c.op = "map_end" -> map_end(s)
    [] c.op = "newtype_variant_begin" -> newtype_variant_begin(s, c.s)
    [] c.op = "newtype_variant_end" -> newtype_variant_end(s)

\* what is left to run after the first of the calls cs took the Serializer
\* from s to s1: the rest when it did not fail; when it failed, every method
\* on the stack returns the error at once, and the only code that still runs
\* is the "," each open element appends before it returns
Rest(s, s1, cs) ==
  IF s1.err = "none" \/ s.err # "none" THEN Tail(cs)
  ELSE [i \in 1..Head(cs).d |-> Call("element_end", <<>>, 0, Head(cs).d + 1 - i, <<>>)]

\* the Serializer after the calls cs: they go on after the first of them took
\* the Serializer from s to s1
Run(s, cs) ==
  LET Continue(s1) == Run(s1, Rest(s, s1, cs))
  IN IF cs = <<>> THEN s ELSE Continue(Exec(s, Head(cs)))

Ok(text) == [status |-> "ok", text |-> text, err |-> "none"]
Err(e) == [status |-> "err", text |-> <<>>, err |-> e]
Pending == [status |-> "pending", text |-> <<>>, err |-> "none"]

\* Error::Message with its text
Message(text) == [status |-> "err", text |-> <<>>, err |-> "Message", msg |-> text]

\* what to_string_inner returns after the walk
Returned(s) ==
  IF s.err = "none" THEN Ok(s.output)
  ELSE IF s.err = "Message" THEN Message(s.msg)
  ELSE Err(s.err)

\* to_string_inner: the whole encode as a function
to_string_inner(prefix, v) == Returned(Run(new(prefix), Walk(v, 0, <<>>)))

\* to_string
to_string(v) == to_string_inner(<<>>, v)

\* Error::new: Message with the text (to_string) of the error it wraps
Error_new(text) == Message(text)

\* what to_writer and the decoders return on success
OkUnit == [status |-> "ok"]
OkValue(call) == [status |-> "ok", from |-> call]

\* File::create on a path that holds the file f (<<>> if none): the file is
\* created, or truncated if it exists
file_create(f) == <<<<>>>>

\* mutant of to_writer_inner: the output is written whatever the encode returned
to_writer_inner_unchecked(s) == <<as_bytes(s.output)>>

\* to_writer_inner up to write_all: the bytes it hands to write_all, none
\* when to_string_inner returned an error
to_writer_inner(s) ==
  IF Returned(s).status = "ok" THEN <<as_bytes(Returned(s).text)>> ELSE <<>>

\* an io::Error: one of the operating system, with its code and the text the
\* C library has for the code, or one made with a text of its own
Os(code, text) == [repr |-> "Os", code |-> code, text |-> text]
Custom(text) == [repr |-> "Custom", text |-> text]

\* the text of an io::Error, which Error::new takes with to_string
Display(e) ==
  IF e.repr = "Os" THEN e.text \o " (os error " \o ToString(e.code) \o ")" ELSE e.text

\* from_env_inner up to the engine's answer: the call it makes
from_env_inner(prefix) ==
  IF prefix # <<>>
  THEN [fn |-> "envy::prefixed.from_env", prefix |-> to_uppercase(prefix[1])]
  ELSE [fn |-> "envy::from_env", prefix |-> <<>>]

\* mutant of collect: a line the parser rejects is skipped
collect_skipping(env, item) ==
  IF item.ok THEN [failed |-> FALSE, env |-> Append(env, item.pair)]
  ELSE [failed |-> FALSE, env |-> env]

\* one turn of the loop of from_str_inner and from_reader_inner over the
\* items of the line parser: the pair is pushed, or the error returned
collect(env, item) ==
  IF item.ok THEN [failed |-> FALSE, env |-> Append(env, item.pair)]
  ELSE [failed |-> TRUE, result |-> Error_new(item.msg)]

\* from_iter_inner up to the engine's answer: the call it makes, prefix an
\* Option (a sequence of at most one string)
from_iter_inner(prefix, pairs) ==
  IF prefix # <<>>
  THEN [fn |-> "envy::prefixed", prefix |-> to_uppercase(prefix[1]), pairs |-> pairs]
  ELSE [fn |-> "envy::from_iter", prefix |-> <<>>, pairs |-> pairs]

(***************************************************************************)
(* The inputs: values and namespace prefixes.                              *)
(***************************************************************************)
FieldNames == <<<<"a">>, <<"b">>, <<"c">>, <<"d">>, <<"e">>, <<"f">>>>
BadNames == {<<"x", " ">>, <<"#">>, <<"x", "\"">>, <<"'", "y">>}

Leaves == {VBool(TRUE), VBool(FALSE), VInt(1), VStr(<<"w">>), VStr(<<>>), VNone}
ElemLeaves == {VInt(1), VStr(<<"w">>), VStr(<<>>)}
Elems ==
  ElemLeaves \cup
  {VTupleVariant(<<VInt(1), VInt(2)>>), VSeq(<<VInt(1)>>), VStruct(<<Field(<<"a">>, VInt(1))>>)}

SeqsOf(S) == UNION {[1..n -> S] : n \in 0..MaxSeqLen}

SeqLikes ==
  {VSeq(es) : es \in SeqsOf(Elems)}
  \cup {VTupleStruct(es) : es \in SeqsOf(ElemLeaves)}
  \cup {VTupleVariant(es) : es \in SeqsOf(ElemLeaves)}

\* the sibling of the field under study
Fill == VInt(1)

\* structs of 1..MaxFields fields a, b, ...: one holds a value of F, the others Fill
WithFocus(F) ==
  UNION {UNION {{VStruct([i \in 1..n |-> Field(FieldNames[i], IF i = p THEN x ELSE Fill)])
                  : x \in F} : p \in 1..n} : n \in 1..MaxFields}

\* the same with the field under study under a name no key may hold
WithBadName ==
  UNION {UNION {{VStruct([i \in 1..n |->
                     Field(IF i = p THEN b ELSE FieldNames[i], Fill)])
                  : b \in BadNames} : p \in 1..n} : n \in 1..MaxFields}

Flat == {VStruct(<<>>)} \cup WithFocus(Leaves \cup SeqLikes)

Small == {VInt(1), VStr(<<>>), VSeq(<<VStr(<<"w">>)>>), VStruct(<<>>)}

\* nested structs, to depth d
RECURSIVE Trees(_)
Trees(d) == IF d = 0 THEN Small ELSE LET T == Trees(d - 1) IN T \cup WithFocus(T)

NewtypeVariants ==
  {VNewtypeVariant(<<"v">>, x) : x \in Leaves \cup Trees(1)}
  \cup {VSeq(<<VNewtypeVariant(<<"v">>, VInt(1))>>)}

\* two nested structs side by side
Siblings ==
  {VStruct(<<Field(FieldNames[1], x), Field(FieldNames[2], y)>>)
     : x \in WithFocus(Small), y \in WithFocus(Small)}

\* strings that hold quotes, a backslash, "=", "#" or a space
Strings ==
  {VStr(<<"\"">>), VStr(<<"a", "\"", "b">>), VStr(<<"\\", "\"">>), VStr(<<"'", "=">>),
   VStr(<<"x", " ", "#">>)}

\* optional values, present and absent, also as elements of a sequence
Options ==
  {VSome(x) : x \in {VStr(<<"w">>), VStr(<<>>), VInt(1), VBool(TRUE), VNone,
                     VSeq(<<VStr(<<"w">>)>>)}}
  \cup {VSeq(<<VNone, VSome(VStr(<<"w">>))>>), VSeq(<<VSome(VInt(1)), VNone>>),
        VSeq(<<VNone>>)}

\* the byte patterns of k bytes at the ends of the signed and the unsigned
\* range and next to them: 0, 1, 10, all ones, the sign bit alone, all but
\* the sign bit, 256^(k-1)
Patterns(k) ==
  {Bytes(0, k), Bytes(1, k), Bytes(10, k), [i \in 1..k |-> Byte - 1],
   [i \in 1..k |-> IF i = k THEN SignBit ELSE 0],
   [i \in 1..k |-> IF i = k THEN SignBit - 1 ELSE Byte - 1],
   [i \in 1..k |-> IF i = k THEN 1 ELSE 0]}

\* the integer types and their widths in bytes
Width(ty) ==
  CASE ty \in {"i8", "u8"} -> 1 [] ty \in {"i16", "u16"} -> 2
    [] ty \in {"i32", "u32"} -> 4 [] ty \in {"i64", "u64"} -> 8
    [] ty \in {"i128", "u128"} -> 16
Signed == {"i8", "i16", "i32", "i64"}
Unsigned == {"u8", "u16", "u32", "u64"}

Natives == UNION {{VNative(ty, w) : w \in Patterns(Width(ty))} : ty \in Signed \cup Unsigned}

NativeFields == {VStruct(<<Field(<<"a">>, x), Field(<<"b">>, Fill)>>) : x \in Natives}

\* the 128-bit integers 1 and -1 (or 2^128 - 1)
Wides ==
  {VNative(ty, w) : ty \in {"i128", "u128"},
                    w \in {Bytes(1, Width("i128")), [i \in 1..Width("i128") |-> Byte - 1]}}

\* 3.5, 0.1, -0.0, 1e21, NaN, inf and 1.5e-7 as f64; -3.5, 0.1, 2^24, 1e-45
\* and -inf as f32
Floats ==
  {VFloat("f64", <<0, 0, 0, 0, 0, 0, 12, 64>>),
   VFloat("f64", <<154, 153, 153, 153, 153, 153, 185, 63>>),
   VFloat("f64", <<0, 0, 0, 0, 0, 0, 0, 128>>),
   VFloat("f64", <<80, 239, 226, 214, 228, 26, 75, 68>>),
   VFloat("f64", <<0, 0, 0, 0, 0, 0, 248, 127>>),
   VFloat("f64", <<0, 0, 0, 0, 0, 0, 240, 127>>),
   VFloat("f64", <<118, 131, 13, 244, 245, 33, 132, 62>>),
   VFloat("f32", <<0, 0, 96, 192>>),
   VFloat("f32", <<205, 204, 204, 61>>),
   VFloat("f32", <<0, 0, 128, 75>>),
   VFloat("f32", <<1, 0, 0, 0>>),
   VFloat("f32", <<0, 0, 128, 255>>)}

Chars == {VChar("w"), VChar("\""), VChar(" ")}

\* bytes that are text ("", "hi", a quote and a line break, a character of
\* three bytes) and bytes that are not
ByteStrings ==
  {VBytes(<<>>), VBytes(<<104, 105>>), VBytes(<<34, 10>>), VBytes(<<226, 130, 172>>),
   VBytes(<<255, 254>>), VBytes(<<237, 160, 128>>), VBytes(<<104, 195>>)}

MoreLeaves == Wides \cup Floats \cup Chars \cup ByteStrings

\* maps with keys that are not strings, and with keys that are
Maps ==
  {VMap(<<Entry(k, VStr(<<"w">>))>>)
     : k \in {VInt(1), VBool(TRUE), VChar("c"), VChar(" "), VStr(<<"k">>), VStr(<<"x", " ">>),
              VNone, VSeq(<<VInt(1), VInt(2)>>), VBytes(<<255>>),
              VNative("i128", Bytes(1, Width("i128")))}}
  \cup {VMap(<<Entry(VInt(1), VStr(<<"w">>)), Entry(VInt(2), Fill)>>),
        VMap(<<Entry(VStr(<<"a">>), VMap(<<Entry(VInt(1), VInt(2))>>)),
               Entry(VStr(<<"b">>), Fill)>>),
        VStruct(<<Field(<<"a">>, VMap(<<Entry(VInt(1), VInt(2))>>)), Field(<<"b">>, Fill)>>),
        VSeq(<<VMap(<<Entry(VInt(1), VInt(2))>>)>>),
        VMap(<<>>)}

\* the letters e with acute and sharp s, and the Euro sign
Eacute == "<<195, 169>>"
Eszett == "<<195, 159>>"
Euro == "<<226, 130, 172>>"
\* the small letters lambda with stroke (U+019B), Garay a (U+10D70) and Beria
\* Erfe arkab (U+16EBB), whose capitals are U+A7DC, U+10D50 and U+16EA0
LambdaStroke == "<<198, 155>>"
GarayA == "<<240, 144, 181, 176>>"
BeriaArkab == "<<240, 150, 186, 187>>"

\* values with names, keys and strings outside ASCII
Cased ==
  {VStruct(<<Field(<<Eacute>>, VInt(1))>>),
   VStruct(<<Field(<<"s", "t", "r", "a", Eszett, "e">>, VStr(<<Eacute, Euro>>)),
             Field(<<"b">>, Fill)>>),
   VStruct(<<Field(<<Eacute>>, VStruct(<<Field(<<Eszett>>, VInt(1))>>)),
             Field(<<"b">>, Fill)>>),
   VStruct(<<Field(<<"a">>, VSeq(<<VStr(<<Euro>>), VInt(1)>>))>>),
   VMap(<<Entry(VChar(Eszett), VStr(<<"w">>))>>),
   VNewtypeVariant(<<Eacute>>, VInt(1)),
   VStruct(<<Field(<<LambdaStroke, GarayA>>, VInt(1)), Field(<<BeriaArkab>>, VInt(2))>>),
   VSeq(<<VBytes(<<226, 130, 172>>), VInt(1)>>)}
CasedPrefixes == {<<>>, <<Eacute, "_">>, <<Eszett>>}

BadKeyed == WithBadName \cup {VStruct(<<Field(<<"a">>, x)>>) : x \in WithBadName}

Values ==
  Leaves \cup SeqLikes \cup Flat \cup Trees(MaxDepth) \cup Siblings
  \cup NewtypeVariants \cup BadKeyed
  \cup Strings \cup WithFocus(Strings) \cup {VSeq(<<x>>) : x \in Strings}
  \cup Options \cup WithFocus(Options \cup {VNone})
  \cup Natives \cup NativeFields
  \cup MoreLeaves \cup {VStruct(<<Field(<<"a">>, x), Field(<<"b">>, Fill)>>) : x \in MoreLeaves}
  \cup {VSeq(<<x, Fill>>) : x \in Wides \cup ByteStrings}
  \cup Maps

Prefixes == {<<>>, <<"p", "_">>, <<"p", " ">>}

\* the values and prefixes of the repository's tests
ExNested ==
  VStruct(<<Field(<<"a">>, VInt(1)),
            Field(<<"b">>, VStruct(<<Field(<<"c">>, VInt(2))>>))>>)
ExSequence ==
  VStruct(<<Field(<<"a">>, VSeq(<<VStr(<<"H","E","L","L","O">>), VStr(<<"W","O","R","L","D">>)>>)),
            Field(<<"b">>, VStr(<<"c","o","n","t","r","o","l"," ","v","a","l","u","e">>))>>)
\* a sequence field whose first, whose last element is the empty string
ExEmptyFirst == VStruct(<<Field(<<"a">>, VSeq(<<VStr(<<>>), VStr(<<"w">>)>>))>>)
ExEmptyLast == VStruct(<<Field(<<"a">>, VSeq(<<VStr(<<"w">>), VStr(<<>>)>>))>>)
ExEnum == VStruct(<<Field(<<"a">>, VUnitVariant(<<"H","E","L","L","O">>))>>)
ExOption ==
  VStruct(<<Field(<<"a">>, VSome(VStr(<<"H","E","L","L","O">>))), Field(<<"b">>, VNone)>>)
ExHello == VStruct(<<Field(<<"h","e","l","l","o">>, VStr(<<"w","o","r","l","d">>))>>)
ExNestedMap ==
  VStruct(<<Field(<<"i","n","n","e","r">>,
                  VStruct(<<Field(<<"H","E","L","L","O">>, VStr(<<"W","O","R","L","D">>))>>))>>)
ExNumbers ==
  VStruct(<<Field(<<"u","8">>, VNative("u8", <<255>>)),
            Field(<<"u","1","6">>, VNative("u16", <<255, 255>>)),
            Field(<<"u","3","2">>, VNative("u32", <<255, 255, 255, 255>>)),
            Field(<<"u","6","4">>, VNative("u64", <<255, 255, 255, 255, 255, 255, 255, 255>>)),
            Field(<<"i","8">>, VNative("i8", <<128>>)),
            Field(<<"i","1","6">>, VNative("i16", <<0, 128>>)),
            Field(<<"i","3","2">>, VNative("i32", <<0, 0, 0, 128>>)),
            Field(<<"i","6","4">>, VNative("i64", <<0, 0, 0, 0, 0, 0, 0, 128>>)),
            Field(<<"f","3","2">>, VFloat("f32", <<0, 0, 96, 192>>)),
            Field(<<"f","6","4">>, VFloat("f64", <<0, 0, 0, 0, 0, 0, 12, 64>>)),
            Field(<<"u","s","i","z","e">>,
                  VNative("u64", <<255, 255, 255, 255, 255, 255, 255, 255>>))>>)
Examples == {ExNested, ExSequence, ExEnum, ExOption, ExHello, ExNestedMap, ExNumbers}
ExamplePrefixes ==
  {<<>>, <<"A","P","P","_">>,
   <<"s","e","r","d","e","_","e","n","v","f","i","l","e","_">>}

Inputs ==
  {[prefix |-> p, value |-> v] : p \in Prefixes, v \in Values}
  \cup {[prefix |-> p, value |-> v] : p \in ExamplePrefixes, v \in Examples}
  \cup {[prefix |-> p, value |-> v] : p \in CasedPrefixes, v \in Cased}

\* what the line parser yields for a text: per line a pair, or an error (a
\* line it rejects, a read that fails) with its text
Pairs ==
  {<<<<"P","_","A">>, <<"1">>>>, <<<<"a">>, <<"w">>>>, <<<<"p","_","b">>, <<>>>>}
ParserErrors == {"Error parsing line", "stream did not contain valid UTF-8"}
Items ==
  {[ok |-> TRUE, pair |-> p] : p \in Pairs}
  \cup {[ok |-> FALSE, msg |-> m] : m \in ParserErrors}

\* the prefix of a decode: None, Some("p_"), Some(""), Some of e with acute and "_"
DecodePrefixes == {<<>>, <<<<"p", "_">>>>, <<<<>>>>, <<<<Eacute, "_">>>>}

DecodeInputs ==
  {[prefix |-> p, items |-> its] :
     p \in DecodePrefixes, its \in UNION {[1..n -> Items] : n \in 0..MaxLines}}

\* the errors of the coercion engine
EngineErrors == {"missing value for field"}

\* what from_file is called with: prefix, and the file at the path, its
\* content given as what the line parser yields for it
FileDecodeInputs ==
  {[prefix |-> p, disk |-> d] :
     p \in DecodePrefixes,
     d \in {<<>>} \cup {<<its>> : its \in UNION {[1..n -> Items] : n \in 0..MaxLines}}}

\* The io::Error of a failed open, create or write is the caller's system's
\* or writer's: any io::Error can come, and each is handled alike, by its
\* text.  The sets below are samples of them.
NotFound == Os(2, "No such file or directory")
Denied == Os(13, "Permission denied")

\* errors of opening a file to read it
OpenErrors == {NotFound, Denied}

\* errors of File::create on a path that holds the file f (<<>> if none):
\* four of them tell that no file is at the path
CreateErrors(f) ==
  {Denied, Os(30, "Read-only file system")}
  \cup (IF f = <<>>
        THEN {NotFound, Os(21, "Is a directory"), Os(20, "Not a directory"),
              Os(36, "File name too long")}
        ELSE {})

\* errors of a writer: the one write_all returns when the writer's write
\* takes no byte, and those its write returns
WriterErrors ==
  {Custom("failed to write whole buffer"), Custom("disk full"), Custom("boom"),
   Os(28, "No space left on device"), Os(9, "Bad file descriptor"), Os(32, "Broken pipe"),
   Os(27, "File too large")}

\* errors of writing to a file just created
FileWriteErrors ==
  {Os(28, "No space left on device"), Os(27, "File too large"), Os(5, "Input/output error"),
   Os(122, "Disk quota exceeded")}

\* what from_env is called with
EnvInputs == {[prefix |-> p] : p \in DecodePrefixes}

\* what to_file is called with: prefix, value, and the file at the path
FileValues ==
  Examples \cup Small \cup BadKeyed \cup Wides \cup {VSeq(es) : es \in SeqsOf(Elems)}
  \cup Cased \cup {VBytes(<<226, 130, 172>>)}
OldContent == as_bytes(<<"O", "L", "D", "=", "1">>)
FileInputs ==
  {[prefix |-> p, value |-> v, disk |-> d] :
     p \in Prefixes, v \in FileValues, d \in {<<>>, <<OldContent>>}}

\* what to_writer is called with: prefix, value, and a writer, either one in
\* memory that takes every byte (a Vec, as in the tests), or any other, whose
\* write may fail
WriterInputs ==
  {[prefix |-> in.prefix, value |-> in.value, writer |-> "Vec"] : in \in Inputs}
  \cup {[prefix |-> p, value |-> v, writer |-> "any"] : p \in Prefixes, v \in FileValues}

Encoders == {"to_string", "to_writer"}
Decoders == {"from_str", "from_reader"}

(***************************************************************************)
(* The state machine: one call of an entry point.                          *)
(***************************************************************************)
VARIABLES
  entry,    \* the entry point called
  written,  \* the bytes the writer of to_writer has taken, each a number 0 .. 255
  iter,     \* what the line parser's iterator has still to yield
  env,      \* the pairs collected from it
  engine,   \* the calls made to the coercion engine
  disk,     \* the file at the path of to_file, from_file: <<>> if none, else <<its
            \* content>>, for to_file its bytes, for from_file what the parser yields
  opened,   \* to_file holds the file it created, from_file the iterator over the file
  output, base_prefix, prefix, key, sequence, prefix_before,  \* the Serializer
  frames,   \* per open newtype variant: did it write its name as a key
  err,      \* the error a method returned, "none" before
  msg,      \* the text of that error when it is a Message
  todo,     \* the calls the framework has still to make
  input,    \* the prefix and value of this encode
  result    \* what to_string_inner returned

vars == <<output, base_prefix, prefix, key, sequence, prefix_before,
          frames, err, msg, todo, input, result, entry, written, iter, env, engine,
          disk, opened>>

Self ==
  [ output |-> output, base_prefix |-> base_prefix, prefix |-> prefix,
    key |-> key, sequence |-> sequence, prefix_before |-> prefix_before,
    frames |-> frames, err |-> err, msg |-> msg ]

Is(s) ==
  /\ output = s.output /\ base_prefix = s.base_prefix /\ prefix = s.prefix
  /\ key = s.key /\ sequence = s.sequence /\ prefix_before = s.prefix_before
  /\ frames = s.frames /\ err = s.err /\ msg = s.msg

Becomes(s) ==
  /\ output' = s.output /\ base_prefix' = s.base_prefix /\ prefix' = s.prefix
  /\ key' = s.key /\ sequence' = s.sequence /\ prefix_before' = s.prefix_before
  /\ frames' = s.frames /\ err' = s.err /\ msg' = s.msg
  /\ todo' = Rest(Self, s, todo)
  /\ UNCHANGED <<input, result, entry, written, iter, env, engine, disk, opened>>

\* an encode: the Serializer is constructed, the framework is about to walk the value
InitEncode ==
  \E e \in Encoders : \E in \in (IF e = "to_writer" THEN WriterInputs ELSE Inputs) :
    /\ entry = e /\ input = in
    /\ Is(new(in.prefix))
    /\ todo = Walk(in.value, 0, <<>>)
    /\ result = Pending
    /\ written = <<>> /\ iter = <<>> /\ env = <<>> /\ engine = <<>>
    /\ disk = <<>> /\ opened = FALSE

\* a decode: the line parser is about to read the text; no Serializer is in use
InitDecode ==
  \E in \in DecodeInputs, e \in Decoders :
    /\ entry = e /\ input = in
    /\ iter = in.items /\ env = <<>> /\ engine = <<>>
    /\ result = Pending
    /\ Is(new(<<>>)) /\ todo = <<>> /\ written = <<>>
    /\ disk = <<>> /\ opened = FALSE

\* to_file: nothing is done yet; the path names no file or a file with content
InitFile ==
  \E in \in FileInputs :
    /\ entry = "to_file" /\ input = in
    /\ disk = in.disk /\ opened = FALSE
    /\ Is(new(<<>>)) /\ todo = <<>>
    /\ result = Pending
    /\ written = <<>> /\ iter = <<>> /\ env = <<>> /\ engine = <<>>

\* from_file: nothing is done yet; the path names no file or a file
InitFromFile ==
  \E in \in FileDecodeInputs :
    /\ entry = "from_file" /\ input = in
    /\ disk = in.disk /\ opened = FALSE
    /\ iter = <<>> /\ env = <<>> /\ engine = <<>>
    /\ result = Pending
    /\ Is(new(<<>>)) /\ todo = <<>> /\ written = <<>>

\* from_env: the engine is about to be called
InitEnv ==
  \E in \in EnvInputs :
    /\ entry = "from_env" /\ input = in
    /\ iter = <<>> /\ env = <<>> /\ engine = <<>>
    /\ result = Pending
    /\ Is(new(<<>>)) /\ todo = <<>> /\ written = <<>>
    /\ disk = <<>> /\ opened = FALSE

Init == InitEncode \/ InitDecode \/ InitFile \/ InitFromFile \/ InitEnv

\* the framework is about to make call op, no method having failed
Next_(op) == result.status = "pending" /\ todo # <<>> /\ err = "none" /\ Head(todo).op = op

SerializeBool == Next_("bool") /\ Becomes(serialize_bool(Self, Head(todo).n = 1))
SerializeI8 == Next_("i8") /\ Becomes(serialize_i8(Self, Head(todo).s))
SerializeI16 == Next_("i16") /\ Becomes(serialize_i16(Self, Head(todo).s))
SerializeI32 == Next_("i32") /\ Becomes(serialize_i32(Self, Head(todo).s))
SerializeI64 == Next_("i64") /\ Becomes(serialize_i64(Self, Head(todo).s))
SerializeU8 == Next_("u8") /\ Becomes(serialize_u8(Self, Head(todo).s))
SerializeU16 == Next_("u16") /\ Becomes(serialize_u16(Self, Head(todo).s))
SerializeU32 == Next_("u32") /\ Becomes(serialize_u32(Self, Head(todo).s))
SerializeU64 == Next_("u64") /\ Becomes(serialize_u64(Self, Head(todo).s))
SerializeStr == Next_("str") /\ Becomes(serialize_str(Self, Head(todo).s))
SerializeNone == Next_("none") /\ Becomes(serialize_unit(Self))
SerializeSeq == Next_("seq_begin") /\ Becomes(serialize_seq(Self))
SerializeTupleVariant == Next_("tuple_variant_begin") /\ Becomes(serialize_tuple_variant(Self))
SeqEnd == Next_("seq_end") /\ Becomes(seq_end(Self))
TupleEnd == Next_("tuple_end") /\ Becomes(tuple_end(Self))
TupleVariantEnd == Next_("tuple_variant_end") /\ Becomes(tuple_variant_end(Self))
SerializeMap == Next_("map_begin") /\ Becomes(serialize_map(Self))
SerializeI128 == Next_("i128") /\ Becomes(serialize_i128(Self, Head(todo).s))
SerializeU128 == Next_("u128") /\ Becomes(serialize_u128(Self, Head(todo).s))
SerializeF32 == Next_("f32") /\ Becomes(serialize_f32(Self, Head(todo).s))
SerializeF64 == Next_("f64") /\ Becomes(serialize_f64(Self, Head(todo).s))
SerializeChar == Next_("char") /\ Becomes(serialize_char(Self, Head(todo).s))
SerializeBytes == Next_("bytes") /\ Becomes(serialize_bytes(Self, Head(todo).s))
\* SerializeStruct::serialize_field up to the value: the key is the field's name
SerializeKey ==
  Next_("key") /\ Becomes(serialize_map_struct_key(Self, VStr(Head(todo).s)))
\* SerializeMap::serialize_key
SerializeMapKey == Next_("map_key") /\ Becomes(serialize_map_struct_key(Self, Head(todo).s))
ValueBegin == Next_("value_begin") /\ Becomes(value_begin(Self))
ValueEnd == Next_("value_end") /\ Becomes(value_end(Self))
MapEnd == Next_("map_end") /\ Becomes(map_end(Self))
NewtypeVariantBegin ==
  Next_("newtype_variant_begin") /\ Becomes(newtype_variant_begin(Self, Head(todo).s))
NewtypeVariantEnd == Next_("newtype_variant_end") /\ Becomes(newtype_variant_end(Self))

\* runs whether or not the element failed
ElementEnd ==
  /\ result.status = "pending" /\ todo # <<>> /\ Head(todo).op = "element_end"
  /\ Becomes(element_end(Self))

\* to_string_inner returns to the caller of to_string
Return ==
  /\ entry = "to_string" /\ result.status = "pending" /\ todo = <<>>
  /\ result' = Returned(Self)
  /\ UNCHANGED <<output, base_prefix, prefix, key, sequence, prefix_before,
                 frames, err, msg, todo, input, entry, written, iter, env, engine,
                 disk, opened>>

\* to_string_inner returns to to_writer_inner: on an error that is returned;
\* else write_all hands the bytes of the text to the writer, which takes all
\* of them, or (unless it is a Vec) fails having taken fewer, possibly
\* stopping inside a character, and the text of its error is returned as
\* Message
ToWriter ==
  /\ entry = "to_writer" /\ result.status = "pending" /\ todo = <<>>
  /\ LET w == to_writer_inner(Self) IN
     IF w = <<>>
     THEN result' = Returned(Self) /\ written' = written
     ELSE \/ written' = written \o w[1] /\ result' = OkUnit
          \/ \E n \in 0..(Len(w[1]) - 1), e \in WriterErrors :
               /\ input.writer # "Vec"
               /\ written' = written \o SubSeq(w[1], 1, n)
               /\ result' = Error_new(Display(e))
  /\ UNCHANGED <<output, base_prefix, prefix, key, sequence, prefix_before,
                 frames, err, msg, todo, input, entry, iter, env, engine,
                 disk, opened>>

\* to_file_inner up to to_writer_inner: File::create fails and the error is
\* returned, or it leaves an empty file at the path; then the Serializer is
\* constructed and the framework is about to walk the value
CreateFile ==
  /\ entry = "to_file" /\ result.status = "pending" /\ ~opened
  /\ \/ /\ \E e \in CreateErrors(disk) : result' = Error_new(Display(e))
        /\ UNCHANGED <<output, base_prefix, prefix, key, sequence, prefix_before,
                       frames, err, msg, todo, disk, opened>>
     \/ /\ disk' = file_create(disk) /\ opened' = TRUE
        /\ LET s == new(input.prefix) IN
           /\ output' = s.output /\ base_prefix' = s.base_prefix /\ prefix' = s.prefix
           /\ key' = s.key /\ sequence' = s.sequence /\ prefix_before' = s.prefix_before
           /\ frames' = s.frames /\ err' = s.err /\ msg' = s.msg
        /\ todo' = Walk(input.value, 0, <<>>)
        /\ result' = result
  /\ UNCHANGED <<input, entry, written, iter, env, engine>>

\* to_string_inner returns to to_writer_inner called by to_file_inner: as
\* ToWriter, the writer being the file
WriteFile ==
  /\ entry = "to_file" /\ result.status = "pending" /\ opened /\ todo = <<>>
  /\ LET w == to_writer_inner(Self) IN
     IF w = <<>>
     THEN result' = Returned(Self) /\ disk' = disk
     ELSE \/ disk' = <<disk[1] \o w[1]>> /\ result' = OkUnit
          \/ \E n \in 0..(Len(w[1]) - 1), e \in FileWriteErrors :
               /\ disk' = <<disk[1] \o SubSeq(w[1], 1, n)>>
               /\ result' = Error_new(Display(e))
  /\ UNCHANGED <<output, base_prefix, prefix, key, sequence, prefix_before,
                 frames, err, msg, todo, input, entry, written, iter, env, engine, opened>>

\* from_file_inner up to its loop: the file cannot be opened and the error is
\* returned, or the line parser is about to read it
OpenFile ==
  /\ entry = "from_file" /\ result.status = "pending" /\ ~opened
  /\ \/ /\ \E e \in OpenErrors : (e = Denied \/ disk = <<>>) /\ result' = Error_new(Display(e))
        /\ UNCHANGED <<opened, iter>>
     \/ /\ disk # <<>>
        /\ opened' = TRUE /\ iter' = disk[1]
        /\ result' = result
  /\ UNCHANGED <<output, base_prefix, prefix, key, sequence, prefix_before,
                 frames, err, msg, todo, input, entry, written, env, engine, disk>>

\* the line parser's iterator exists
Reading == entry \in Decoders \/ (entry = "from_file" /\ opened)

\* one turn of the loop of from_str_inner, from_reader_inner, from_file_inner
Collect ==
  /\ Reading /\ result.status = "pending" /\ iter # <<>>
  /\ LET c == collect(env, Head(iter)) IN
     IF c.failed THEN result' = c.result /\ env' = env
     ELSE env' = c.env /\ result' = result
  /\ iter' = Tail(iter)
  /\ UNCHANGED <<output, base_prefix, prefix, key, sequence, prefix_before,
                 frames, err, msg, todo, input, entry, written, engine,
                 disk, opened>>

\* from_iter_inner: the engine is called and answers with a value or an error
FromIter ==
  /\ Reading /\ result.status = "pending" /\ iter = <<>>
  /\ LET call == from_iter_inner(input.prefix, env) IN
     /\ engine' = Append(engine, call)
     /\ \/ result' = OkValue(call)
        \/ \E m \in EngineErrors : result' = Error_new(m)
  /\ UNCHANGED <<output, base_prefix, prefix, key, sequence, prefix_before,
                 frames, err, msg, todo, input, entry, written, iter, env,
                 disk, opened>>

\* from_env_inner: the engine is called to read the environment and answers
\* with a value or an error
FromEnv ==
  /\ entry = "from_env" /\ result.status = "pending"
  /\ LET call == from_env_inner(input.prefix) IN
     /\ engine' = Append(engine, call)
     /\ \/ result' = OkValue(call)
        \/ \E m \in EngineErrors : result' = Error_new(m)
  /\ UNCHANGED <<output, base_prefix, prefix, key, sequence, prefix_before,
                 frames, err, msg, todo, input, entry, written, iter, env,
                 disk, opened>>

Next ==
  \/ SerializeBool \/ SerializeStr \/ SerializeNone
  \/ SerializeI8 \/ SerializeI16 \/ SerializeI32 \/ SerializeI64
  \/ SerializeU8 \/ SerializeU16 \/ SerializeU32 \/ SerializeU64
  \/ SerializeI128 \/ SerializeU128 \/ SerializeF32 \/ SerializeF64
  \/ SerializeChar \/ SerializeBytes \/ SerializeMapKey
  \/ SerializeSeq \/ SerializeTupleVariant \/ ElementEnd \/ SeqEnd \/ TupleEnd
  \/ TupleVariantEnd
  \/ SerializeMap \/ SerializeKey \/ ValueBegin \/ ValueEnd \/ MapEnd
  \/ NewtypeVariantBegin \/ NewtypeVariantEnd
  \/ Return \/ ToWriter
  \/ CreateFile \/ WriteFile
  \/ OpenFile \/ Collect \/ FromIter \/ FromEnv

Spec == Init /\ [][Next]_vars

TypeOK ==
  /\ key \in BOOLEAN /\ sequence \in BOOLEAN
  /\ err \in {"none", "Syntax", "UnsupportedStructureInSeq", "Message"}
  /\ result.status \in {"pending", "ok", "err"}

(***************************************************************************)
(* What the claims speak of.                                               *)
(***************************************************************************)
IsPrefixOf(a, b) == Len(a) <= Len(b) /\ SubSeq(b, 1, Len(a)) = a

\* the lines of a text: the pieces between its line breaks
RECURSIVE Lines(_)
Lines(text) ==
  IF \E i \in 1..Len(text) : text[i] = "\n"
  THEN LET i == CHOOSE i \in 1..Len(text) :
                  text[i] = "\n" /\ \A j \in 1..(i - 1) : text[j] # "\n"
       IN <<SubSeq(text, 1, i - 1)>> \o Lines(SubSeq(text, i + 1, Len(text)))
  ELSE <<text>>

\* the key of a line: what stands before its first "=" (all of it if none)
KeyOf(line) ==
  IF contains(line, "=")
  THEN SubSeq(line, 1, (CHOOSE i \in 1..Len(line) :
                          line[i] = "=" /\ \A j \in 1..(i - 1) : line[j] # "=") - 1)
  ELSE line

\* the lines of an encoded text: none for the empty text
LinesOf(text) == IF text = <<>> THEN <<>> ELSE Lines(text)

Keys(text) == [i \in 1..Len(LinesOf(text)) |-> KeyOf(LinesOf(text)[i])]

IsScalar(v) == v.k \in {"bool", "int", "str", "none", "unit_variant"}
IsCompound(v) == v.k = "struct"
IsScalarSeq(v) == v.k = "seq" /\ \A i \in 1..Len(v.e) : IsScalar(v.e[i])
\* a compound whose fields all hold scalars
IsFlat(v) == IsCompound(v) /\ \A i \in 1..Len(v.f) : IsScalar(v.f[i].val)
\* a compound whose fields all hold scalars or sequences of scalars
IsFlatWithSeqs(v) ==
  IsCompound(v) /\ \A i \in 1..Len(v.f) : IsScalar(v.f[i].val) \/ IsScalarSeq(v.f[i].val)

\* the text of a scalar in value position, as the format defines it
ScalarText(v) ==
  CASE v.k = "bool" -> IF v.b THEN <<"t","r","u","e">> ELSE <<"f","a","l","s","e">>
    [] v.k = "int" -> IntToString(v.n)
    [] v.k \in {"str", "unit_variant"} ->
         IF v.s = <<>> THEN <<>> ELSE <<"\"">> \o v.s \o <<"\"">>
    [] v.k = "none" -> <<>>

\* the texts of the elements es, joined by ","
RECURSIVE Joined(_)
Joined(es) ==
  IF es = <<>> THEN <<>>
  ELSE IF Len(es) = 1 THEN ScalarText(es[1])
  ELSE ScalarText(es[1]) \o <<",">> \o Joined(Tail(es))
\* to_string has returned; it has returned a text
Finished == entry = "to_string" /\ result.status # "pending"
Encoded == entry = "to_string" /\ result.status = "ok"

\* a compound whose fields hold scalars or non-empty compounds of scalars
IsTwoLevel(v) ==
  /\ IsCompound(v)
  /\ \A i \in 1..Len(v.f) : IsScalar(v.f[i].val) \/ (IsFlat(v.f[i].val) /\ v.f[i].val.f # <<>>)
  /\ \E i \in 1..Len(v.f) : IsCompound(v.f[i].val)

\* the number of lines the first n of the fields fs of such a compound are to
\* give: one per scalar field, one per child of a compound field
RECURSIVE LineCount(_, _)
LineCount(fs, n) ==
  IF n = 0 THEN 0
  ELSE LineCount(fs, n - 1) + (IF IsCompound(fs[n].val) THEN Len(fs[n].val.f) ELSE 1)

\* C1 (as claimed): without a namespace prefix, a field f of the encoded
\* compound that holds a non-empty compound has no line of its own, and its
\* children have one line each, in order, child c under the key F_C; and
\* {a:1, b:{c:2}} encodes to exactly A=1\nB_C=2.
C1_NestedChildKeys ==
  /\ (Encoded /\ input.prefix = <<>> /\ IsTwoLevel(input.value)) =>
       LET fs == input.value.f IN
       /\ Len(LinesOf(result.text)) = LineCount(fs, Len(fs))
       /\ \A i \in 1..Len(fs) :
            IsCompound(fs[i].val) =>
              \A j \in 1..Len(fs[i].val.f) :
                Keys(result.text)[LineCount(fs, i - 1) + j]
                  = JoinPath(to_uppercase(fs[i].name), fs[i].val.f[j].name)
  /\ (Finished /\ input = [prefix |-> <<>>, value |-> ExNested]) =>
       result = Ok(<<"A","=","1","\n","B","_","C","=","2">>)

\* C2 (as claimed): when the value of a field has been encoded, the key path
\* is again the path of the enclosing compound.
C2_PrefixRestored ==
  [][Next_("value_end") => prefix' = Head(todo).path]_vars

\* C3 (as claimed): every line of the text of a compound whose fields hold
\* scalars, empty strings, None or sequences of any length is a non-empty
\* key followed by "=".
C3_EveryLineIsAssignment ==
  (Encoded /\ IsFlatWithSeqs(input.value)) =>
    \A i \in 1..Len(LinesOf(result.text)) :
      LET line == LinesOf(result.text)[i] IN
      contains(line, "=") /\ KeyOf(line) # <<>>

\* C4 (as claimed): the text of a successful encode does not end with a line
\* break, whatever the root value is.
C4_NoTrailingLineBreak ==
  Encoded => (result.text = <<>> \/ result.text[Len(result.text)] # "\n")

C6_NestingInSequenceRefused ==
  (Finished /\ input.prefix = <<>> /\ input.value.k \in {"seq", "tuple_struct"}
     /\ \E i \in 1..Len(input.value.e) :
          input.value.e[i].k \in {"seq", "tuple_struct", "struct"}) =>
    result = Err("UnsupportedStructureInSeq")

\* C7: when the framework hands over the key of a field (the name of a
\* struct's field, the string key of a map's entry) whose fully qualified
\* key (upper-cased namespace prefix, then the key path) holds a space, "#",
\* a double or a single quote, the call fails with Syntax having appended
\* nothing to the output, and the encode returns Syntax and no text.
C7_SyntaxBeforeAnyWrite ==
  [][ /\ ( /\ Next_("key") \/ (Next_("map_key") /\ Head(todo).s.k = "str")
           /\ ForbiddenInKey(to_uppercase(input.prefix) \o Head(todo).path) ) =>
          (err' = "Syntax" /\ IsPrefixOf(output', output))
      /\ (todo = <<>> /\ err = "Syntax") => result' = Err("Syntax") ]_vars

\* C7 witness: a key was refused after an earlier field had been written
C7_Witness == result = Err("Syntax") /\ contains(output, "=")

\* C8 (as claimed): a tuple struct (of at least one field) is refused with
\* UnsupportedTupleStruct.
C8_TupleStructRefused ==
  (Finished /\ input.value.k = "tuple_struct" /\ Len(input.value.e) >= 1) => result = Err("UnsupportedTupleStruct")

\* C9: with namespace prefix p, the keys of a flat compound are upper(p)
\* directly followed by the upper-cased field names, in field order; with
\* prefix "APP_" {hello:"world"} gives APP_HELLO="world", with prefix
\* "serde_envfile_" it gives SERDE_ENVFILE_HELLO="world"; upper is the
\* upper-casing of Unicode: under the prefix e-acute "_" the field e-acute
\* has the key E-acute "_" E-acute, under the prefix sharp s the key SS
\* E-acute, and the fields U+019B U+10D70 and U+16EBB have the keys
\* U+A7DC U+10D50 and U+16EA0.
C9_PrefixedFlatKeys ==
  /\ (Encoded /\ IsFlat(input.value)) =>
       Keys(result.text) =
         [i \in 1..Len(input.value.f) |->
            to_uppercase(input.prefix) \o to_uppercase(input.value.f[i].name)]
  /\ (Finished /\ input = [prefix |-> <<"A","P","P","_">>, value |-> ExHello]) =>
       result = Ok(<<"A","P","P","_","H","E","L","L","O","=","\"","w","o","r","l","d","\"">>)
  /\ (Finished /\ input = [prefix |-> <<"s","e","r","d","e","_","e","n","v","f","i","l","e","_">>,
                            value |-> ExHello]) =>
       result = Ok(<<"S","E","R","D","E","_","E","N","V","F","I","L","E","_",
                     "H","E","L","L","O","=","\"","w","o","r","l","d","\"">>)
  /\ (Finished /\ input = [prefix |-> <<Eacute, "_">>,
                            value |-> VStruct(<<Field(<<Eacute>>, VInt(1))>>)]) =>
       result = Ok(<<"<<195, 137>>", "_", "<<195, 137>>", "=", "1">>)
  /\ (Finished /\ input = [prefix |-> <<Eszett>>,
                            value |-> VStruct(<<Field(<<Eacute>>, VInt(1))>>)]) =>
       result = Ok(<<"S", "S", "<<195, 137>>", "=", "1">>)
  /\ (Finished /\ input = [prefix |-> <<>>,
                            value |-> VStruct(<<Field(<<LambdaStroke, GarayA>>, VInt(1)),
                                                Field(<<BeriaArkab>>, VInt(2))>>)]) =>
       result = Ok(<<"<<234, 159, 156>>", "<<240, 144, 181, 144>>", "=", "1", "\n",
                     "<<240, 150, 186, 160>>", "=", "2">>)

\* C9 witness: a flat compound of two fields was encoded under a lower-case prefix
C9_Witness ==
  /\ Encoded /\ IsFlat(input.value) /\ Len(input.value.f) = 2
  /\ input.prefix = <<"p", "_">>
  /\ IsPrefixOf(<<"P", "_", "A", "=">>, result.text)

\* a tree of compounds over scalars and sequences of scalars
RECURSIVE IsTree(_)
IsTree(v) ==
  \/ IsScalar(v) \/ IsScalarSeq(v)
  \/ IsCompound(v) /\ \A i \in 1..Len(v.f) : IsTree(v.f[i].val)

\* C10 (as claimed): the text encoded under prefix p is the text encoded
\* without prefix with upper(p) put before every line.
C10_PrefixOncePerLine ==
  (Encoded /\ IsCompound(input.value) /\ IsTree(input.value)) =>
    LET plain == to_string(input.value) IN
    /\ plain.status = "ok"
    /\ LinesOf(result.text) =
         [i \in 1..Len(LinesOf(plain.text)) |->
            to_uppercase(input.prefix) \o LinesOf(plain.text)[i]]

\* the text of a string in value position
Quoted(v) == IF v = <<>> THEN <<>> ELSE <<"\"">> \o v \o <<"\"">>

\* C15: a string handed over in value position (as a field's value, as an
\* element or as the root) appends to the output a double quote, its
\* characters unchanged and a double quote when it is not empty, and nothing
\* when it is empty; the call does not fail.
C15_StringQuotedVerbatim ==
  [][Next_("str") => (err' = "none" /\ output' = output \o Quoted(Head(todo).s))]_vars

\* C15 witness: a string with a double quote inside was encoded as a field's value
C15_Witness ==
  /\ Encoded
  /\ input.value = VStruct(<<Field(<<"a">>, VStr(<<"a", "\"", "b">>))>>)
  /\ result.text = to_uppercase(input.prefix) \o <<"A", "=", "\"", "a", "\"", "b", "\"">>

\* v with every None replaced by the empty string and every Some(x) by x
RECURSIVE Plain(_)
Plain(v) ==
  CASE v.k = "none" -> VStr(<<>>)
    [] v.k = "some" -> Plain(v.x)
    [] v.k \in {"seq", "tuple_struct", "tuple_variant"} ->
         [v EXCEPT !.e = [i \in 1..Len(v.e) |-> Plain(v.e[i])]]
    [] v.k = "struct" ->
         [v EXCEPT !.f = [i \in 1..Len(v.f) |-> Field(v.f[i].name, Plain(v.f[i].val))]]
    [] v.k = "newtype_variant" -> [v EXCEPT !.x = Plain(v.x)]
    [] OTHER -> v

\* C16: the encode of a value returns what the encode of the same value with
\* "" for every None and x for every Some(x) returns; in a compound of
\* scalars the line of a field that holds None is its key and "="; and
\* {a:Some("HELLO"), b:None} encodes to exactly A="HELLO"\nB=.
C16_OptionAsPayloadOrEmpty ==
  /\ Finished => result = to_string_inner(input.prefix, Plain(input.value))
  /\ (Encoded /\ IsFlat(input.value)) =>
       \A i \in 1..Len(input.value.f) :
         input.value.f[i].val = VNone =>
           LinesOf(result.text)[i]
             = to_uppercase(input.prefix) \o to_uppercase(input.value.f[i].name) \o <<"=">>
  /\ (Finished /\ input = [prefix |-> <<>>, value |-> ExOption]) =>
       result = Ok(<<"A","=","\"","H","E","L","L","O","\"","\n","B","=">>)

\* C16 witness: a compound with a Some and a None field was encoded
C16_Witness ==
  /\ Encoded /\ input.value = ExOption
  /\ ends_with(result.text, <<"\n", "B", "=">>)

\* C17: once a method of the Serializer has failed, the writer of to_writer
\* (called with or without a namespace prefix) has taken no byte and takes
\* none, and what to_string or to_writer returns is that error, without text.
C17_NoPartialResult ==
  (entry \in Encoders /\ err # "none") =>
    /\ written = <<>>
    /\ result.status # "pending" =>
         (result.status = "err" /\ result.err = err /\ result.text = <<>>)

\* C17 witness: to_writer returned an error of the encode after the
\* Serializer had produced output, under a namespace prefix
C17_Witness ==
  /\ entry = "to_writer" /\ input.prefix # <<>>
  /\ result.status = "err" /\ err # "none" /\ output # <<>> /\ written = <<>>

\* the lines the line parser rejects
Rejected(its) == {i \in 1..Len(its) : ~its[i].ok}

\* C18: when the line parser rejects a line (or fails to read), the decode
\* takes nothing more from the parser after the first such item, never calls
\* the coercion engine, returns no value, and returns Message with the text
\* of the parser's error.
C18_StopsAtFirstRejectedLine ==
  (entry \in Decoders /\ Rejected(input.items) # {}) =>
    LET R == Rejected(input.items)
        i == CHOOSE i \in R : \A j \in R : i <= j
    IN /\ engine = <<>>
       /\ Len(iter) >= Len(input.items) - i
       /\ result.status # "ok"
       /\ result.status = "err" =>
            (result.err = "Message" /\ result.msg = input.items[i].msg /\ Len(iter) = Len(input.items) - i)

\* C18 witness: a decode under a prefix failed on the second line, one pair
\* collected and one line unread
C18_Witness ==
  /\ entry \in Decoders /\ input.prefix # <<>>
  /\ result.status = "err" /\ Len(env) = 1 /\ Len(iter) = 1 /\ engine = <<>>

\* w * 10 + c in the width of w, and the carry out of that width
RECURSIVE MulAdd10(_, _)
MulAdd10(w, c) ==
  IF w = <<>> THEN [w |-> <<>>, c |-> c]
  ELSE LET x == w[1] * 10 + c
           up == MulAdd10(Tail(w), x \div Byte)
       IN [w |-> <<x % Byte>> \o up.w, c |-> up.c]

\* the unsigned word the digits ds denote when read after acc: <<w>>, or <<>>
\* when the number does not fit the width of acc
RECURSIVE Magnitude(_, _)
Magnitude(ds, acc) ==
  IF ds = <<>> THEN <<acc>>
  ELSE LET DigitOf(c) == (CHOOSE i \in 1..10 : Digits[i] = c) - 1
           m == MulAdd10(acc, DigitOf(Head(ds)))
       IN IF m.c # 0 THEN <<>> ELSE Magnitude(Tail(ds), m.w)

\* the integer of type ty that a decimal text denotes: <<w>>, or <<>> when
\* the text is no decimal numeral or its value is outside the type's range
Denoted(ty, text) ==
  LET IsDigit(c) == \E i \in 1..10 : Digits[i] = c
      neg == text # <<>> /\ text[1] = "-"
      ds == IF neg THEN Tail(text) ELSE text
  IN IF ds = <<>> \/ (\E i \in 1..Len(ds) : ~IsDigit(ds[i])) \/ (neg /\ ty \in Unsigned)
     THEN <<>>
     ELSE LET m == Magnitude(ds, Bytes(0, Width(ty)))
          IN IF m = <<>> \/ ty \in Unsigned THEN m
             ELSE IF neg
                  THEN (IF IsZero(m[1]) \/ IsNegative(Negate(m[1]))
                        THEN <<Negate(m[1])>> ELSE <<>>)
                  ELSE (IF IsNegative(m[1]) THEN <<>> ELSE m)

\* no leading zero, no "-0"
Canonical(text) ==
  LET ds == IF text # <<>> /\ text[1] = "-" THEN Tail(text) ELSE text
  IN ds # <<>> /\ (ds[1] = "0" => (Len(ds) = 1 /\ ds = text))

\* the same value as an integer of 64 bits
Wide(v) ==
  IF v.ty \in Signed THEN VNative("i64", i64_from(v.w)) ELSE VNative("u64", u64_from(v.w))

\* what follows the first "=" of a line
ValueOf(line) == SubSeq(line, Len(KeyOf(line)) + 2, Len(line))

\* C19: the text of an integer of any native width, encoded alone or as the
\* value of a field, is the canonical decimal numeral that denotes exactly
\* its value in its own type (so reading the numeral back in that width
\* gives the identical integer), and is the text the encode of the same
\* value as a 64-bit integer returns; the u64 maximum encodes to
\* 18446744073709551615 and the i64 minimum to -9223372036854775808.
C19_ExactDecimalText ==
  /\ (Finished /\ input.value \in Natives) =>
       /\ result.status = "ok"
       /\ Denoted(input.value.ty, result.text) = <<input.value.w>>
       /\ Canonical(result.text)
       /\ result = to_string_inner(input.prefix, Wide(input.value))
  /\ (Encoded /\ input.value \in NativeFields) =>
       LET v == input.value.f[1].val
           line == LinesOf(result.text)[1]
       IN /\ KeyOf(line) = to_uppercase(input.prefix) \o <<"A">>
          /\ Denoted(v.ty, ValueOf(line)) = <<v.w>>
          /\ Canonical(ValueOf(line))
  /\ (Finished /\ input.value = VNative("u64", [i \in 1..8 |-> Byte - 1])) =>
       result.text = <<"1","8","4","4","6","7","4","4","0","7","3","7","0","9","5","5","1","6","1","5">>
  /\ (Finished /\ input.value = VNative("i64", [i \in 1..8 |-> IF i = 8 THEN SignBit ELSE 0])) =>
       result.text = <<"-","9","2","2","3","3","7","2","0","3","6","8","5","4","7","7","5","8","0","8">>

\* C19 witness: the i8 minimum was encoded as the value of a field
C19_Witness ==
  /\ Encoded /\ input.prefix = <<>>
  /\ input.value = VStruct(<<Field(<<"a">>, VNative("i8", <<SignBit>>)), Field(<<"b">>, Fill)>>)
  /\ result.text = <<"A","=","-","1","2","8","\n","B","=","1">>

\* how many of the calls cs are calls of ops
RECURSIVE Count(_, _)
Count(cs, ops) ==
  IF cs = <<>> THEN 0
  ELSE (IF Head(cs).op \in ops THEN 1 ELSE 0) + Count(Tail(cs), ops)

\* the sequences (sequences, tuples, tuple structs) begun and not yet ended:
\* those whose end is still to come and whose begin is not
OpenSequences == Count(todo, {"seq_end", "tuple_end"}) - Count(todo, {"seq_begin"})

\* C20 (as claimed): while no method has failed, the sequence flag is true
\* exactly between the begin and the end of a sequence, tuple or tuple
\* struct; the end of a tuple variant inside the open sequence leaves it true.
C20_FlagTracksOpenSequence ==
  (entry \in Encoders /\ err = "none") => (sequence <=> OpenSequences > 0)

\* the leaf (non-compound) fields of the fields fs, depth first
RECURSIVE LeafFields(_)
LeafFields(fs) ==
  IF fs = <<>> THEN <<>>
  ELSE (IF IsCompound(Head(fs).val) THEN LeafFields(Head(fs).val.f) ELSE <<Head(fs).val>>)
       \o LeafFields(Tail(fs))

\* the text of a leaf: of a scalar, or of a sequence of scalars
LeafText(v) == IF IsScalar(v) THEN ScalarText(v) ELSE Joined(v.e)

\* C21 (as claimed): the text of a successful encode of a tree of compounds
\* has one line per leaf field, in depth-first field order (line i carries
\* the text of leaf i), and no line for a compound-valued field, also when
\* that compound has no fields.
C21_OneLinePerLeaf ==
  (Encoded /\ IsCompound(input.value) /\ IsTree(input.value)) =>
    LET leaves == LeafFields(input.value.f)
        lines == LinesOf(result.text)
    IN /\ Len(lines) = Len(leaves)
       /\ \A i \in 1..Len(leaves) : ValueOf(lines[i]) = LeafText(leaves[i])

\* C22 (as claimed): when a method of the Serializer has failed during
\* to_file, the file at the path is what it was before the call: not
\* created if there was none, its content kept if there was one.
C22_FailedEncodeLeavesFile ==
  (entry = "to_file" /\ err # "none") => disk = input.disk
====
